---- MODULE Spec2Model ----
(***************************************************************************)
(* Model of the annotate_video application (App.tsx): the share-link codec *)
(* (handleShare, handleSharePlaylist, the load-on-mount effect) and the    *)
(* session state it reads and writes.                                      *)
(*                                                                         *)
(* Representation of JavaScript values                                     *)
(*   - a string-typed value that is null or undefined is the sentinel      *)
(*     string null or undefined;                                           *)
(*   - an object is a record; a property that is absent or undefined is a  *)
(*     key that is not in the record's DOMAIN;                             *)
(*   - an object-typed value that is null is the record nullObj.           *)
(* Representation of the wire string                                       *)
(*   - a URL-safe string is [enc |-> "b64url", bytes |-> B] when atob      *)
(*     accepts it after the remap is reversed, [enc |-> "invalid"] when    *)
(*     atob throws on it, [enc |-> "absent"] when the parameter is not in  *)
(*     the address and [enc |-> "empty"] when it is the empty string;      *)
(*   - bytes B are [fmt |-> "zlib", text |-> T] when pako.inflate accepts  *)
(*     them and [fmt |-> "corrupt"] when it throws;                        *)
(*   - text T is [syntax |-> "object", value |-> o], [syntax |-> "null"]   *)
(*     (the JSON text null) or [syntax |-> "garbage"] (JSON.parse throws). *)
(* The character-level remap between base64 and its URL-safe form is       *)
(* modelled on its own (SpecRemap), on strings that are sequences of       *)
(* one-character strings.                                                  *)
(* The other parts of the application have a specification each over the   *)
(* same variables: the life of the address across reloads (SpecReload),    *)
(* the backup importer and its relink wizard (SpecImport), the editing of  *)
(* annotations (SpecEdit), the playing of a playlist (SpecPlay) and the    *)
(* folder tree of the sidebar (SpecFolders).                               *)
(***************************************************************************)
EXTENDS Integers, Sequences, FiniteSets, TLC

VARIABLES
    search,              \* window.location.search: [d |-> wire, p |-> wire]
    mounted,             \* TRUE once the load-on-mount effect has run
    appData,
    selectedFolderId,
    currentVideo,
    videoUrl,
    videoId,
    localVideoUrl,
    localVideoName,
    generalNotes,
    annotations,
    showImportModal,
    activePlaylist,
    playlistIndex,
    isPlaylistMode,
    sidebarTab,
    ambientVideoId,
    currentAmbientId,
    ambientVideoTitle,
    ambientPlaying,
    pendingImportData,
    pendingImportVideo,
    localVideosToLink,
    currentLinkingVideo,
    linkedLocalVideos,
    importTargetFolderId,
    clipboard,           \* navigator.clipboard: the last text written
    lastAlert,           \* the last alert() shown ("" when none)
    consoleError,        \* the last console.error message ("" when none)
    base64Text,          \* base64 of the share handlers: btoa(binaryStr), in characters
    urlSafeText,         \* urlSafe made from it
    paddedText           \* padded of the effect: what it hands to atob

sessionVars == <<appData, selectedFolderId, currentVideo, videoUrl, videoId, localVideoUrl,
                 localVideoName, generalNotes, annotations, activePlaylist,
                 playlistIndex, isPlaylistMode, sidebarTab>>

ambientVars == <<ambientVideoId, currentAmbientId, ambientVideoTitle, ambientPlaying>>

importVars == <<showImportModal, pendingImportData, pendingImportVideo,
                localVideosToLink, currentLinkingVideo, linkedLocalVideos,
                importTargetFolderId>>

envVars == <<search, mounted, clipboard, lastAlert, consoleError>>

textVars == <<base64Text, urlSafeText, paddedText>>

vars == <<sessionVars, ambientVars, importVars, envVars, textVars>>

----------------------------------------------------------------------------
(* Bounds of the model *)

MaxTime == 1            \* marker times are 0..MaxTime seconds
MaxMarkers == 2         \* markers of one session or payload
MaxItems == 2           \* items of one playlist or payload
MaxQuads == 1           \* a base64 text has at most MaxQuads groups of 4 characters
MaxFile == 2            \* videos of one backup file
MaxSaved == 1           \* an import starts with fewer than MaxSaved videos in the library
MaxFolders == 3         \* folders of the library
MaxNow == 1             \* Date.now() returns one of 0..MaxNow
LongLen == 9000         \* length of the long notes / playlist name
BaseUrlLen == 20        \* length of window.location.origin + pathname

(* Program constant: the address-length limit of handleShare(Playlist) *)
UrlLimit == 8000

----------------------------------------------------------------------------
(* JavaScript values *)

null == "<null>"
undefined == "<undefined>"
nullObj == [null |-> TRUE]
Empty == [k \in {} |-> k]

\* truthiness of a string-typed value
Truthy(s) == s \notin {"", null, undefined}

\* a || b on string-typed values
Or(a, b) == IF Truthy(a) THEN a ELSE b

\* o.k for a string-typed property
Get(o, k) == IF k \in DOMAIN o THEN o[k] ELSE undefined

\* truthiness of o.k for a boolean-typed property
IsTrue(o, k) == k \in DOMAIN o /\ o[k] = TRUE

\* { k: o.f } where an undefined o.f leaves k undefined
Opt(k, o, f) == IF f \in DOMAIN o THEN (k :> o[f]) ELSE Empty

----------------------------------------------------------------------------
(* Strings of the model and their lengths *)

LongText == "<long text>"

StrLen(s) == IF s = LongText THEN LongLen ELSE Len(s)

Digits(n) == IF n < 0 THEN 1 + Len(ToString(0 - n)) ELSE Len(ToString(n))

RECURSIVE SumSeq(_)
SumSeq(s) == IF s = <<>> THEN 0 ELSE Head(s) + SumSeq(Tail(s))

----------------------------------------------------------------------------
(* Encode pipeline: projection, JSON.stringify, pako.deflate, btoa, remap *)

\* a projection that forgets the description
CompactAnnotationPlain(ann) ==
    [t |-> ann.timestamp, n |-> ann.title]

\* one element of compactData.a
CompactAnnotation(ann) ==
    [t |-> ann.timestamp, n |-> ann.title]
        @@ (IF Truthy(Get(ann, "description")) THEN [d |-> ann.description] ELSE Empty)

\* a projection that writes l: !!localVideoUrl
CompactShareDataWithFlag(vId, lName, notes, anns, lUrl) ==
    [v |-> Or(vId, ""),
     t |-> Or(lName, "Shared Video"),
     g |-> notes,
     a |-> [i \in 1..Len(anns) |-> CompactAnnotation(anns[i])],
     l |-> Truthy(lUrl)]

\* compactData of handleShare, from the session it reads
CompactShareData(vId, lName, notes, anns, lUrl) ==
    [v |-> Or(vId, ""),
     t |-> Or(lName, "Shared Video"),
     g |-> notes,
     a |-> [i \in 1..Len(anns) |-> CompactAnnotation(anns[i])]]
        @@ (IF Truthy(lUrl) THEN [l |-> TRUE] ELSE Empty)

\* a projection that forgets the file name of a local item
CompactPlaylistItemNoHint(item) ==
    [v |-> Get(item, "videoId"),
     u |-> IF IsTrue(item, "isLocalFile") THEN "" ELSE Get(item, "url"),
     t |-> Get(item, "title")]
        @@ (IF IsTrue(item, "isLocalFile") THEN [l |-> TRUE] ELSE Empty)

\* a projection that keeps the url of a local item
CompactPlaylistItemWithUrl(item) ==
    [v |-> Get(item, "videoId"), u |-> Get(item, "url"), t |-> Get(item, "title")]
        @@ (IF IsTrue(item, "isLocalFile")
            THEN [l |-> TRUE, f |-> Get(item, "localFileName")]
            ELSE Empty)

\* one element of compactPlaylist.i
CompactPlaylistItem(item) ==
    [v |-> Get(item, "videoId"),
     u |-> IF IsTrue(item, "isLocalFile") THEN "" ELSE Get(item, "url"),
     t |-> Get(item, "title")]
        @@ (IF IsTrue(item, "isLocalFile")
            THEN [l |-> TRUE, f |-> Get(item, "localFileName")]
            ELSE Empty)

\* data.playlists || []
LibraryPlaylists(data) == IF "playlists" \in DOMAIN data THEN data.playlists ELSE <<>>

\* url.startsWith('blob:'), on the URLs of the model
StartsWithBlob(url) == url \in {"blob:1", "blob:2", "blob:3", "blob:4"}

\* the library a page reads: the importer installs an appData without the
\* ambientSounds property, which every reader treats as no sounds
LibrarySounds(data) ==
    IF "ambientSounds" \in DOMAIN data THEN data.ambientSounds ELSE <<>>

\* one element of compactPlaylist.as
CompactAmbientSound(sound) == [v |-> sound.videoId, t |-> sound.title]

\* a projection that writes the flags whenever the playlist has them
CompactPlaylistDataAllFlags(playlist, ambientSounds) ==
    [n |-> Get(playlist, "name"),
     i |-> [k \in 1..Len(playlist.items) |-> CompactPlaylistItem(playlist.items[k])]]
        @@ Opt("lp", playlist, "loop")
        @@ Opt("sr", playlist, "startRandom")
        @@ Opt("rt", playlist, "randomTime")
        @@ (IF Len(ambientSounds) > 0
            THEN [as |-> [k \in 1..Len(ambientSounds) |-> CompactAmbientSound(ambientSounds[k])]]
            ELSE Empty)

\* a projection that writes the as key whatever the library holds
CompactPlaylistDataAlwaysAs(playlist, ambientSounds) ==
    [n |-> Get(playlist, "name"),
     i |-> [k \in 1..Len(playlist.items) |-> CompactPlaylistItem(playlist.items[k])]]
        @@ Opt("lp", playlist, "loop")
        @@ (IF IsTrue(playlist, "startRandom") THEN [sr |-> TRUE] ELSE Empty)
        @@ (IF IsTrue(playlist, "randomTime") THEN [rt |-> TRUE] ELSE Empty)
        @@ [as |-> [k \in 1..Len(ambientSounds) |-> CompactAmbientSound(ambientSounds[k])]]

\* compactPlaylist of handleSharePlaylist, from the playlist and the library
CompactPlaylistData(playlist, ambientSounds) ==
    [n |-> Get(playlist, "name"),
     i |-> [k \in 1..Len(playlist.items) |-> CompactPlaylistItem(playlist.items[k])]]
        @@ Opt("lp", playlist, "loop")
        @@ (IF IsTrue(playlist, "startRandom") THEN [sr |-> TRUE] ELSE Empty)
        @@ (IF IsTrue(playlist, "randomTime") THEN [rt |-> TRUE] ELSE Empty)
        @@ (IF Len(ambientSounds) > 0
            THEN [as |-> [k \in 1..Len(ambientSounds) |-> CompactAmbientSound(ambientSounds[k])]]
            ELSE Empty)

\* JSON.stringify leaves out the properties whose value is undefined
DropUndefined(o, strKeys) ==
    [k \in {x \in DOMAIN o : ~(x \in strKeys /\ o[x] = undefined)} |-> o[k]]

StringifyItems(o) ==
    IF "i" \in DOMAIN o
    THEN [o EXCEPT !.i = [k \in 1..Len(o.i) |-> DropUndefined(o.i[k], {"v", "u", "t", "f"})]]
    ELSE o

\* JSON.stringify(compactData) and JSON.stringify(compactPlaylist)
Stringify(o) ==
    [syntax |-> "object", value |-> StringifyItems(DropUndefined(o, {"v", "t", "g", "n"}))]

\* length of the JSON text of a member "k":"s", "k":n, "k":true|false
MemberStr(k, s) == Len(k) + 5 + StrLen(s)
MemberNum(k, n) == Len(k) + 3 + Digits(n)
MemberBool(k, b) == Len(k) + 3 + (IF b THEN 4 ELSE 5)

\* length of a JSON object or array: its parts, the commas, the brackets
Enclosed(parts) ==
    2 + SumSeq(parts) + (IF Len(parts) = 0 THEN 0 ELSE Len(parts) - 1)

RECURSIVE StrMembers(_, _)
StrMembers(o, keys) ==
    IF keys = <<>> THEN <<>>
    ELSE (IF Head(keys) \in DOMAIN o
          THEN <<MemberStr(Head(keys), o[Head(keys)])>> ELSE <<>>)
         \o StrMembers(o, Tail(keys))

RECURSIVE BoolMembers(_, _)
BoolMembers(o, keys) ==
    IF keys = <<>> THEN <<>>
    ELSE (IF Head(keys) \in DOMAIN o
          THEN <<MemberBool(Head(keys), o[Head(keys)])>> ELSE <<>>)
         \o BoolMembers(o, Tail(keys))

AnnotationLen(x) == Enclosed(<<MemberNum("t", x.t)>> \o StrMembers(x, <<"n", "d">>))
ItemLen(x) ==
    Enclosed(StrMembers(x, <<"v", "u", "t">>) \o BoolMembers(x, <<"l">>)
                 \o StrMembers(x, <<"f">>))
SoundLen(x) == Enclosed(StrMembers(x, <<"v", "t">>))

ShareLen(o) ==
    Enclosed(StrMembers(o, <<"v", "t", "g">>)
        \o (IF "a" \in DOMAIN o
            THEN <<4 + Enclosed([k \in 1..Len(o.a) |-> AnnotationLen(o.a[k])])>>
            ELSE <<>>)
        \o BoolMembers(o, <<"l">>))

PlaylistLen(o) ==
    Enclosed(StrMembers(o, <<"n">>)
        \o (IF "i" \in DOMAIN o
            THEN <<4 + Enclosed([k \in 1..Len(o.i) |-> ItemLen(o.i[k])])>>
            ELSE <<>>)
        \o BoolMembers(o, <<"lp", "sr", "rt">>)
        \o (IF "as" \in DOMAIN o
            THEN <<5 + Enclosed([k \in 1..Len(o.as) |-> SoundLen(o.as[k])])>>
            ELSE <<>>))

\* jsonStr.length
JsonLen(text) ==
    IF text.syntax # "object" THEN 4
    ELSE IF "i" \in DOMAIN text.value \/ "n" \in DOMAIN text.value
         THEN PlaylistLen(text.value)
         ELSE ShareLen(text.value)

\* pako.deflate(jsonStr): a zlib stream that inflates to jsonStr.  The library
\* is a black box; its output is sized as a stored (uncompressed) stream:
\* 2 bytes of header, 5 of block header, the text, 4 of checksum.
Deflate(text) == [fmt |-> "zlib", text |-> text]
DeflateLen(text) == JsonLen(text) + 11

\* btoa(binaryStr).length, and the number of '=' it ends with
Base64Len(nbytes) == 4 * ((nbytes + 2) \div 3)
Base64Pad(nbytes) == (3 - (nbytes % 3)) % 3

\* base64.replace(/\+/g,'-').replace(/\//g,'_').replace(/=+$/,'')
UrlSafe(bytes) == [enc |-> "b64url", bytes |-> bytes]
UrlSafeLen(bytes) == Base64Len(DeflateLen(bytes.text)) - Base64Pad(DeflateLen(bytes.text))

\* `${origin}${pathname}?d=${urlSafe}` (param "d") or ?p= (param "p")
ShareUrl(param, urlSafe) ==
    [param |-> param, urlSafe |-> urlSafe,
     length |-> BaseUrlLen + 3 + UrlSafeLen(urlSafe.bytes)]

\* a limit ten times too large
TooLongTenfold(shareUrl) == shareUrl.length > UrlLimit * 10

\* shareUrl.length > 8000
TooLong(shareUrl) == shareUrl.length > UrlLimit

----------------------------------------------------------------------------
(* Decode pipeline of the load-on-mount effect *)

\* the stage at which the try block of the ?d= branch throws, "none" if it
\* runs to its end: atob, pako.inflate, JSON.parse, compactData.g on null,
\* compactData.a.map on undefined
VideoFailStage(data) ==
    IF data.enc # "b64url" THEN "atob"
    ELSE IF data.bytes.fmt # "zlib" THEN "inflate"
    ELSE IF data.bytes.text.syntax = "garbage" THEN "parse"
    ELSE IF data.bytes.text.syntax = "null" THEN "deref"
    ELSE IF "a" \notin DOMAIN data.bytes.text.value THEN "map"
    ELSE "none"

\* the same for the ?p= branch: compactPlaylist.n on null, compactPlaylist.i.map
\* on undefined
PlaylistFailStage(data) ==
    IF data.enc # "b64url" THEN "atob"
    ELSE IF data.bytes.fmt # "zlib" THEN "inflate"
    ELSE IF data.bytes.text.syntax = "garbage" THEN "parse"
    ELSE IF data.bytes.text.syntax = "null" THEN "deref"
    ELSE IF "i" \notin DOMAIN data.bytes.text.value THEN "map"
    ELSE "none"

\* JSON.parse(pako.inflate(atob(...))) when no stage throws
Parsed(data) == data.bytes.text.value

\* `shared_${idx}`, `shared_${Date.now()}`, `item_${idx}`, `ambient_${Date.now()}_${idx}`
SharedId(n) == "shared_" \o ToString(n)
\* an item id that forgets the position
ItemIdFixed(idx) == "item_0"
ItemId(idx) == "item_" \o ToString(idx)
AmbientId(t, idx) == "ambient_" \o ToString(t) \o "_" \o ToString(idx)

\* compactData.a.map((ann, idx) => ({id, timestamp, title, description}))
SharedAnnotation(ann, idx) ==
    [id |-> SharedId(idx), timestamp |-> ann.t]
        @@ Opt("title", ann, "n") @@ Opt("description", ann, "d")

SharedAnnotations(a) == [k \in 1..Len(a) |-> SharedAnnotation(a[k], k - 1)]

\* sharedVideo of the compactData.l branch
SharedVideo(compactData, t) ==
    [id |-> SharedId(t), videoId |-> "", url |-> "",
     annotations |-> SharedAnnotations(compactData.a),
     createdAt |-> t, isLocalFile |-> TRUE]
        @@ Opt("title", compactData, "t")
        @@ Opt("generalNotes", compactData, "g")
        @@ Opt("localFileName", compactData, "t")

\* `https://youtube.com/watch?v=${compactData.v}`
WatchUrl(v) == "https://youtube.com/watch?v=" \o (IF v = undefined THEN "undefined" ELSE v)

\* compactPlaylist.i.map((item, idx) => ({id, videoId, url, title, isLocalFile, localFileName}))
SharedPlaylistItem(item, idx) ==
    [id |-> ItemId(idx)]
        @@ Opt("videoId", item, "v") @@ Opt("url", item, "u") @@ Opt("title", item, "t")
        @@ Opt("isLocalFile", item, "l") @@ Opt("localFileName", item, "f")

\* a reconstruction that walks the wire items from the last to the first
SharedPlaylistReversed(compactPlaylist, t) ==
    [id |-> SharedId(t),
     items |-> [k \in 1..Len(compactPlaylist.i) |->
                   SharedPlaylistItem(compactPlaylist.i[Len(compactPlaylist.i) + 1 - k], k - 1)],
     createdAt |-> t]
        @@ Opt("name", compactPlaylist, "n")
        @@ Opt("loop", compactPlaylist, "lp")
        @@ Opt("startRandom", compactPlaylist, "sr")
        @@ Opt("randomTime", compactPlaylist, "rt")

\* sharedPlaylist
SharedPlaylist(compactPlaylist, t) ==
    [id |-> SharedId(t),
     items |-> [k \in 1..Len(compactPlaylist.i) |->
                   SharedPlaylistItem(compactPlaylist.i[k], k - 1)],
     createdAt |-> t]
        @@ Opt("name", compactPlaylist, "n")
        @@ Opt("loop", compactPlaylist, "lp")
        @@ Opt("startRandom", compactPlaylist, "sr")
        @@ Opt("randomTime", compactPlaylist, "rt")

\* compactPlaylist.as && compactPlaylist.as.length > 0
HasAmbient(compactPlaylist) ==
    "as" \in DOMAIN compactPlaylist /\ Len(compactPlaylist.as) > 0

\* decoded tracks added after the sounds the library already holds
SharedAmbientSoundsMerged(as, t) ==
    LibrarySounds(appData) \o
    [k \in 1..Len(as) |-> [id |-> AmbientId(t, k - 1), videoId |-> as[k].v, title |-> as[k].t]]

\* sharedAmbientSounds
SharedAmbientSounds(as, t) ==
    [k \in 1..Len(as) |-> [id |-> AmbientId(t, k - 1), videoId |-> as[k].v, title |-> as[k].t]]

\* items.findIndex(...): the first 0-based index among the 1-based positions
\* that satisfy the callback, or -1
FindIndex(positions) ==
    IF positions = {} THEN -1
    ELSE (CHOOSE k \in positions : \A j \in positions : k <= j) - 1

\* a start index that is the random draw itself
ActualStartIndexDrawn(sharedPlaylist, startIndex) ==
    IF Len(sharedPlaylist.items) = 0 THEN -1 ELSE startIndex

\* actualStartIndex of the shared playlist, startIndex being the random draw
ActualStartIndex(sharedPlaylist, startIndex) ==
    LET items == sharedPlaylist.items
        playable == {k \in 1..Len(items) :
                        /\ ~IsTrue(items[k], "isLocalFile")
                        /\ (IF IsTrue(sharedPlaylist, "startRandom")
                            THEN k - 1 = startIndex ELSE TRUE)}
        notLocal == {k \in 1..Len(items) : ~IsTrue(items[k], "isLocalFile")}
        firstPlayableIndex == FindIndex(playable)
    IN IF firstPlayableIndex >= 0 THEN firstPlayableIndex
       ELSE FindIndex(notLocal)

----------------------------------------------------------------------------
(* The URL-safe remap, character by character *)

\* a text variable that holds no text yet
Unset == <<"unset">>

\* s.replace(/from/g, to) for a one-character pattern
ReplaceAll(s, from, to) == [k \in 1..Len(s) |-> IF s[k] = from THEN to ELSE s[k]]

\* s.replace(/=+$/, '')
RECURSIVE StripPadding(_)
StripPadding(s) ==
    IF s # <<>> /\ s[Len(s)] = "=" THEN StripPadding(SubSeq(s, 1, Len(s) - 1)) ELSE s

\* c.repeat(n)
Repeat(c, n) == [k \in 1..n |-> c]

\* base64.replace(/\+/g, '-').replace(/\//g, '_').replace(/=+$/, '')
ToUrlSafe(b) == StripPadding(ReplaceAll(ReplaceAll(b, "+", "-"), "/", "_"))

\* a reversal that forgets the padding
FromUrlSafeUnpadded(data) == ReplaceAll(ReplaceAll(data, "-", "+"), "_", "/")

\* data.replace(/-/g, '+').replace(/_/g, '/') + '='.repeat((4 - base64.length % 4) % 4)
FromUrlSafe(data) ==
    LET restored == ReplaceAll(ReplaceAll(data, "-", "+"), "_", "/")
    IN restored \o Repeat("=", (4 - (Len(restored) % 4)) % 4)

\* the characters of btoa's alphabet the model uses: a letter and the two
\* characters the remap replaces
Base64Chars == {"A", "+", "/"}

\* the texts btoa returns: groups of 4 characters, the last one ending in
\* no, one or two '='
Base64Quads == [1..4 -> Base64Chars]
Base64LastQuads ==
    Base64Quads
      \cup {q \o <<"=">> : q \in [1..3 -> Base64Chars]}
      \cup {q \o <<"=", "=">> : q \in [1..2 -> Base64Chars]}

RECURSIVE QuadSeqs(_)
QuadSeqs(n) ==
    IF n = 0 THEN {<<>>}
    ELSE {q \o rest : q \in Base64Quads, rest \in QuadSeqs(n - 1)}

Base64Texts ==
    {<<>>} \cup UNION {{body \o last : body \in QuadSeqs(n - 1), last \in Base64LastQuads} :
                          n \in 1..MaxQuads}

----------------------------------------------------------------------------
(* Inputs of the model *)

\* the values Date.now() may return
Clock == 0..MaxNow

SeqsUpTo(S, n) == UNION {[1..k -> S] : k \in 0..n}

Without(o, keys) == [k \in DOMAIN o \ keys |-> o[k]]

Absent == [enc |-> "absent"]
EmptyParam == [enc |-> "empty"]
InvalidWire == [enc |-> "invalid"]
CorruptBytes == [fmt |-> "corrupt"]
NullText == [syntax |-> "null"]
GarbageText == [syntax |-> "garbage"]

\* a test for the presence of the parameter, whatever its value
WirePresent(w) == w.enc # "absent"

\* params.get(name) is truthy
WireTruthy(w) == w.enc \in {"b64url", "invalid"}

NoSearch == [d |-> Absent, p |-> Absent]

\* the texts, byte strings and wire strings built on a set of JSON objects
WiresOf(objects) ==
    LET texts == {[syntax |-> "object", value |-> o] : o \in objects}
                     \cup {NullText, GarbageText}
        bytes == {[fmt |-> "zlib", text |-> t] : t \in texts} \cup {CorruptBytes}
    IN {[enc |-> "b64url", bytes |-> b] : b \in bytes} \cup {InvalidWire}

\* video-share payloads a link may carry: complete ones, and ones with one
\* of the required fields missing; a link is written by anyone, so a marker
\* time may be any JSON number
WireMarkers ==
    {[t |-> t, n |-> "A"] @@ d :
        t \in 0..MaxTime, d \in {Empty, [d |-> ""], [d |-> "desc"]}}
      \cup {[t |-> -1, n |-> "A"]}

CompleteVideoObjects ==
    {[v |-> "vidA", t |-> "clip.mp4", g |-> "note", a |-> a] @@ l :
        a \in SeqsUpTo(WireMarkers, MaxMarkers), l \in {Empty, [l |-> TRUE]}}

VideoObjects ==
    {Without(o, drop) : o \in CompleteVideoObjects,
                        drop \in {{}, {"v"}, {"t"}, {"g"}, {"a"}}}

\* playlist-share payloads a link may carry
WireItems ==
    {[v |-> "vidA", u |-> "https://youtu.be/vidA", t |-> "Video A"],
     [v |-> "", u |-> "", t |-> "clip.mp4", l |-> TRUE, f |-> "clip.mp4"],
     [v |-> "", u |-> "blob:9", t |-> "", l |-> TRUE]}

WireSounds ==
    {Empty, [as |-> <<>>], [as |-> <<[v |-> "rain", t |-> "Rain"]>>],
     [as |-> <<[v |-> "rain", t |-> "Rain"], [v |-> "fire", t |-> "Fire"]>>]}

CompletePlaylistObjects ==
    {[n |-> "P", i |-> i, lp |-> lp] @@ flags @@ as :
        i \in SeqsUpTo(WireItems, MaxItems), lp \in BOOLEAN,
        flags \in {Empty, [sr |-> TRUE], [rt |-> TRUE]},
        as \in WireSounds}

PlaylistObjects ==
    {Without(o, drop) : o \in CompletePlaylistObjects,
                        drop \in {{}, {"n"}, {"i"}, {"lp"}}}

\* the address the page is opened with
\* addresses with both parameters, or with a payload of the other kind or
\* of both kinds under a parameter
VideoSample ==
    [v |-> "vidA", t |-> "clip.mp4", g |-> "note", a |-> <<[t |-> 0, n |-> "A"]>>]

PlaylistSample ==
    [n |-> "P", i |-> <<[v |-> "vidA", u |-> "https://youtu.be/vidA", t |-> "Video A"]>>,
     lp |-> TRUE]

WireOf(o) ==
    [enc |-> "b64url",
     bytes |-> [fmt |-> "zlib", text |-> [syntax |-> "object", value |-> o]]]

MixedSearches ==
    LET samples == {WireOf(VideoSample), WireOf(PlaylistSample),
                    WireOf(VideoSample @@ PlaylistSample)}
    IN {[d |-> w, p |-> Absent] : w \in samples}
         \cup {[d |-> e, p |-> w] : e \in {Absent, EmptyParam}, w \in samples}
         \cup {[d |-> w1, p |-> w2] : w1 \in samples \cup {InvalidWire}, w2 \in samples}
         \cup {[d |-> EmptyParam, p |-> Absent]}

Searches ==
    {[d |-> w, p |-> Absent] : w \in WiresOf(VideoObjects)}
      \cup {[d |-> e, p |-> w] : e \in {Absent, EmptyParam}, w \in WiresOf(PlaylistObjects)}
      \cup {NoSearch}
      \cup MixedSearches

\* the library loadAppData finds in localStorage
Sound1 == [id |-> "s1", videoId |-> "wind", title |-> "Wind"]
Sound2 == [id |-> "s2", videoId |-> "surf", title |-> "Surf"]

Library(playlists, ambientSounds) ==
    [folders |-> <<>>, videos |-> <<>>, playlists |-> playlists,
     ambientSounds |-> ambientSounds]

\* annotations as handleAddAnnotation and AnnotationItem.handleSave leave
\* them: a title, a time, no description or a non-empty one
UserMarkers ==
    {[id |-> "0", timestamp |-> t, title |-> n.title] @@ n.more :
        t \in 0..MaxTime,
        n \in {[title |-> "A", more |-> Empty],
               [title |-> "B", more |-> [description |-> "desc"]]}}

\* playlist items as addYouTubeToPlaylist and addCurrentVideoToPlaylist make them
UserItems ==
    {[id |-> "i1", videoId |-> "vidA", url |-> "https://youtu.be/vidA", title |-> "Video A"],
     [id |-> "i2", videoId |-> "vidB", url |-> "https://youtu.be/vidB", title |-> "Video B",
      isLocalFile |-> FALSE],
     [id |-> "i3", videoId |-> "", url |-> "blob:1", title |-> "clip.mp4",
      isLocalFile |-> TRUE, localFileName |-> "clip.mp4"],
     [id |-> "i4", videoId |-> "", url |-> "blob:2", title |-> "Untitled Video",
      isLocalFile |-> TRUE]}

UserPlaylists ==
    {[id |-> "7", name |-> n, items |-> i, createdAt |-> 0, loop |-> lp] @@ flags :
        n \in {"P", LongText}, i \in SeqsUpTo(UserItems, MaxItems), lp \in BOOLEAN,
        flags \in {Empty, [startRandom |-> TRUE], [randomTime |-> TRUE],
                   [startRandom |-> FALSE, randomTime |-> FALSE]}}

----------------------------------------------------------------------------
(* Initial states *)

\* the useState initialisers of App, but for appData
FreshVideo ==
    /\ currentVideo = nullObj
    /\ videoUrl = ""
    /\ videoId = null
    /\ localVideoUrl = null
    /\ localVideoName = ""
    /\ generalNotes = ""
    /\ annotations = <<>>

FreshPlaylist ==
    /\ activePlaylist = nullObj
    /\ playlistIndex = 0
    /\ isPlaylistMode = FALSE
    /\ sidebarTab = "annotations"

FreshAmbient ==
    /\ ambientVideoId = null
    /\ currentAmbientId = null
    /\ ambientVideoTitle = ""
    /\ ambientPlaying = TRUE

FreshImport ==
    /\ showImportModal = FALSE
    /\ pendingImportData = nullObj
    /\ pendingImportVideo = nullObj
    /\ localVideosToLink = <<>>
    /\ currentLinkingVideo = nullObj
    /\ linkedLocalVideos = Empty
    /\ importTargetFolderId = null

FreshPage == FreshVideo /\ FreshPlaylist /\ FreshAmbient /\ FreshImport

\* a page just opened, with or without a share parameter in its address
InitOpened ==
    /\ FreshPage
    /\ mounted = FALSE
    /\ search \in Searches
    /\ appData \in {Library(<<>>, <<>>), Library(<<>>, <<Sound1>>)}
    /\ WireTruthy(search.p) \/ appData.ambientSounds = <<>>

\* a page in use with a video and its notes: a streaming video, a local file,
\* or a local playlist item that has neither file name nor title, loaded by
\* loadPlaylistItem before exitPlaylistMode
InitSession ==
    /\ FreshPlaylist /\ FreshAmbient /\ FreshImport
    /\ mounted = TRUE
    /\ search = NoSearch
    /\ appData = Library(<<>>, <<>>)
    /\ currentVideo = nullObj
    /\ \E kind \in {"stream", "local", "unnamed"} :
          /\ videoId = (IF kind = "stream" THEN "vidA" ELSE null)
          /\ videoUrl = (IF kind = "stream" THEN "https://youtu.be/vidA" ELSE "")
          /\ localVideoUrl = (IF kind = "stream" THEN null ELSE "blob:1")
          /\ localVideoName = (IF kind = "local" THEN "clip.mp4" ELSE "")
    /\ generalNotes \in {"note", LongText}
    /\ annotations \in SeqsUpTo(UserMarkers, MaxMarkers)

\* a page in use right after playPlaylist(playlist, 0)
InitPlaylist ==
    /\ FreshVideo /\ FreshImport
    /\ mounted = TRUE
    /\ search = NoSearch
    /\ isPlaylistMode = TRUE
    /\ playlistIndex = 0
    /\ sidebarTab = "playlists"
    /\ activePlaylist \in UserPlaylists
    /\ \/ \E sounds \in {<<>>, <<Sound1, Sound2>>} :
             /\ appData = Library(<<activePlaylist>>, sounds)
             /\ ambientVideoId = (IF sounds = <<>> THEN null ELSE "wind")
             /\ currentAmbientId = (IF sounds = <<>> THEN null ELSE "wind")
             /\ ambientVideoTitle = (IF sounds = <<>> THEN "" ELSE "Wind")
             /\ ambientPlaying = TRUE
       \/ \* the library of a backup file, installed by handleImportFile
          /\ activePlaylist.name = "P"
          /\ DOMAIN activePlaylist = {"id", "name", "items", "createdAt", "loop"}
          /\ appData = Without(Library(<<activePlaylist>>, <<>>), {"ambientSounds"})
          /\ FreshAmbient

Init ==
    /\ clipboard = [param |-> "none"]
    /\ lastAlert = ""
    /\ consoleError = ""
    /\ base64Text = Unset /\ urlSafeText = Unset /\ paddedText = Unset
    /\ selectedFolderId = null
    /\ (InitOpened \/ InitSession \/ InitPlaylist)

----------------------------------------------------------------------------
(* The load-on-mount effect *)

\* an address that keeps its parameters
ClearedSearchKept == search

\* the address after window.history.replaceState({}, "", pathname)
ClearedSearch == NoSearch

\* LoadVideoRejected as it would be had setGeneralNotes been called, with
\* nothing decoded yet, before the try block throws
LoadVideoRejectedLate ==
    /\ VideoFailStage(search.d) \in {"atob", "inflate", "parse", "deref"}
    /\ generalNotes' = undefined
    /\ consoleError' = "Failed to load shared data:"
    /\ UNCHANGED <<annotations, localVideoName, videoId,
                   videoUrl, localVideoUrl, importVars, search>>

\* the try block of the ?d= branch throws before its first setter is called
\* (atob, pako.inflate, JSON.parse or compactData.g on null): the catch logs
LoadVideoRejected ==
    /\ VideoFailStage(search.d) \in {"atob", "inflate", "parse", "deref"}
    /\ consoleError' = "Failed to load shared data:"
    /\ UNCHANGED <<generalNotes, annotations, localVideoName, videoId,
                   videoUrl, localVideoUrl, importVars, search>>

\* compactData.a.map throws on a missing a: setGeneralNotes(compactData.g)
\* has been called by then
LoadVideoThrown ==
    /\ VideoFailStage(search.d) = "map"
    /\ generalNotes' = Get(Parsed(search.d), "g")
    /\ consoleError' = "Failed to load shared data:"
    /\ UNCHANGED <<annotations, localVideoName, videoId,
                   videoUrl, localVideoUrl, importVars, search>>

\* a try block that takes the streaming branch whatever compactData.l is
InstalledVideoPlayable(compactData, t) ==
    [generalNotes |-> Get(compactData, "g"),
     annotations |-> SharedAnnotations(compactData.a),
     localVideoName |-> IF IsTrue(compactData, "l") THEN Get(compactData, "t") ELSE "",
     videoId |-> Get(compactData, "v"),
     videoUrl |-> WatchUrl(Get(compactData, "v")),
     localVideoUrl |-> null,
     toLink |-> IF IsTrue(compactData, "l") THEN <<SharedVideo(compactData, t)>> ELSE <<>>]

\* what the try block installs when it runs to its end: the values its
\* setters are called with, toLink being the argument of setLocalVideosToLink
\* in the compactData.l branch and empty in the other
InstalledVideo(compactData, t) ==
    [generalNotes |-> Get(compactData, "g"),
     annotations |-> SharedAnnotations(compactData.a),
     localVideoName |-> IF IsTrue(compactData, "l") THEN Get(compactData, "t") ELSE "",
     videoId |-> IF IsTrue(compactData, "l") THEN null ELSE Get(compactData, "v"),
     videoUrl |-> IF IsTrue(compactData, "l") THEN "" ELSE WatchUrl(Get(compactData, "v")),
     localVideoUrl |-> null,
     toLink |-> IF IsTrue(compactData, "l") THEN <<SharedVideo(compactData, t)>> ELSE <<>>]

\* the try block runs to its end
LoadVideoInstalled ==
    /\ VideoFailStage(search.d) = "none"
    /\ \E t \in Clock :
       LET installed == InstalledVideo(Parsed(search.d), t)
       IN /\ generalNotes' = installed.generalNotes
          /\ annotations' = installed.annotations
          /\ localVideoName' = installed.localVideoName
          /\ videoId' = installed.videoId
          /\ videoUrl' = installed.videoUrl
          /\ localVideoUrl' = installed.localVideoUrl
          /\ IF installed.toLink # <<>>
             THEN /\ localVideosToLink' = installed.toLink
                  /\ currentLinkingVideo' = installed.toLink[1]
                  /\ linkedLocalVideos' = Empty
                  /\ showImportModal' = TRUE
                  /\ UNCHANGED <<pendingImportData, pendingImportVideo, importTargetFolderId>>
             ELSE UNCHANGED importVars
          /\ search' = ClearedSearch
          /\ UNCHANGED consoleError

\* the ?d= branch: a video share
LoadSharedVideo ==
    /\ ~mounted
    /\ WireTruthy(search.d)
    /\ mounted' = TRUE
    /\ UNCHANGED <<clipboard, lastAlert, textVars>>
    /\ UNCHANGED <<appData, selectedFolderId, currentVideo, activePlaylist, playlistIndex,
                   isPlaylistMode, sidebarTab, ambientVars>>
    /\ (LoadVideoRejected \/ LoadVideoThrown \/ LoadVideoInstalled)

\* the ?p= branch: a playlist share
LoadSharedPlaylist ==
    /\ ~mounted
    /\ ~WireTruthy(search.d)
    /\ WireTruthy(search.p)
    /\ mounted' = TRUE
    /\ UNCHANGED <<clipboard, importVars, textVars, selectedFolderId>>
    /\ IF PlaylistFailStage(search.p) # "none"
       THEN \* thrown before the first setter is called
            /\ consoleError' = "Failed to load shared playlist:"
            /\ UNCHANGED <<sessionVars, ambientVars, search, lastAlert>>
       ELSE \E t \in Clock :
            LET compactPlaylist == Parsed(search.p)
                sharedPlaylist == SharedPlaylist(compactPlaylist, t)
                sharedAmbientSounds == SharedAmbientSounds(compactPlaylist.as, t)
                localItems == {k \in 1..Len(sharedPlaylist.items) :
                                   IsTrue(sharedPlaylist.items[k], "isLocalFile")}
                n == Len(sharedPlaylist.items)
            IN \E startIndex \in (IF IsTrue(sharedPlaylist, "startRandom") /\ n > 0
                                  THEN 0..(n - 1) ELSE {0}) :
               LET actualStartIndex == ActualStartIndex(sharedPlaylist, startIndex)
                   item == sharedPlaylist.items[actualStartIndex + 1]
               IN /\ IF HasAmbient(compactPlaylist)
                     THEN /\ appData' = [appData EXCEPT !.ambientSounds = sharedAmbientSounds]
                          /\ ambientVideoId' = sharedAmbientSounds[1].videoId
                          /\ currentAmbientId' = sharedAmbientSounds[1].videoId
                          /\ ambientVideoTitle' = sharedAmbientSounds[1].title
                          /\ ambientPlaying' = TRUE
                     ELSE UNCHANGED <<appData, ambientVars>>
                  /\ IF actualStartIndex >= 0
                     THEN /\ activePlaylist' = sharedPlaylist
                          /\ playlistIndex' = actualStartIndex
                          /\ isPlaylistMode' = TRUE
                          /\ videoId' = Get(item, "videoId")
                          /\ videoUrl' = Get(item, "url")
                          /\ localVideoUrl' = null
                          /\ localVideoName' = ""
                          /\ currentVideo' = nullObj
                          /\ generalNotes' = ""
                          /\ annotations' = <<>>
                          /\ sidebarTab' = "playlists"
                          /\ lastAlert' = (IF localItems # {}
                                           THEN "This playlist contains local video(s)"
                                           ELSE lastAlert)
                     ELSE /\ lastAlert' = "This playlist only contains local videos"
                          /\ UNCHANGED <<activePlaylist, playlistIndex, isPlaylistMode,
                                         videoId, videoUrl, localVideoUrl, localVideoName,
                                         currentVideo, generalNotes, annotations, sidebarTab>>
                  /\ search' = ClearedSearch
                  /\ UNCHANGED consoleError

\* no share parameter: the effect does nothing
LoadNothing ==
    /\ ~mounted
    /\ ~WireTruthy(search.d)
    /\ ~WireTruthy(search.p)
    /\ mounted' = TRUE
    /\ UNCHANGED <<sessionVars, ambientVars, importVars,
                   search, clipboard, lastAlert, consoleError, textVars>>

----------------------------------------------------------------------------
(* The Share button *)

\* the text handed to navigator.clipboard.writeText, or the alert shown
WriteOrAlert(shareUrl, tooLongAlert, failAlert, failLog) ==
    IF TooLong(shareUrl)
    THEN /\ lastAlert' = tooLongAlert
         /\ UNCHANGED <<clipboard, consoleError>>
    ELSE \/ /\ clipboard' = shareUrl
            /\ lastAlert' = "copied to clipboard"
            /\ UNCHANGED consoleError
         \/ \* writeText rejects
            /\ lastAlert' = failAlert
            /\ consoleError' = failLog
            /\ UNCHANGED clipboard

\* a share URL whose notes are the text of the last alert
VideoShareUrlStamped ==
    ShareUrl("d", UrlSafe(Deflate(Stringify(
        CompactShareData(videoId, localVideoName, lastAlert, annotations, localVideoUrl)))))

\* shareUrl of handleShare
VideoShareUrl ==
    ShareUrl("d", UrlSafe(Deflate(Stringify(
        CompactShareData(videoId, localVideoName, generalNotes, annotations, localVideoUrl)))))

\* a handler that empties the notes once it has built the URL
handleShareClearing ==
    /\ mounted
    /\ ~(isPlaylistMode /\ activePlaylist # nullObj)
    /\ generalNotes' = ""
    /\ UNCHANGED <<appData, selectedFolderId, currentVideo, videoUrl, videoId, localVideoUrl,
                   localVideoName, annotations, activePlaylist, playlistIndex, isPlaylistMode, sidebarTab>>
    /\ UNCHANGED <<ambientVars, importVars, search, mounted, textVars>>
    /\ IF ~Truthy(videoId) /\ ~Truthy(localVideoUrl)
       THEN /\ lastAlert' = "No video loaded to share"
            /\ UNCHANGED <<clipboard, consoleError>>
       ELSE WriteOrAlert(VideoShareUrl, "URL is too long",
                         "Failed to create share URL. Try using Export instead.",
                         "Share error:")

handleShare ==
    /\ mounted
    /\ ~(isPlaylistMode /\ activePlaylist # nullObj)
    /\ UNCHANGED <<sessionVars, ambientVars, importVars, search, mounted, textVars>>
    /\ IF ~Truthy(videoId) /\ ~Truthy(localVideoUrl)
       THEN /\ lastAlert' = "No video loaded to share"
            /\ UNCHANGED <<clipboard, consoleError>>
       ELSE WriteOrAlert(VideoShareUrl, "URL is too long",
                         "Failed to create share URL. Try using Export instead.",
                         "Share error:")

\* shareUrl of handleSharePlaylist
PlaylistShareUrl(playlist) ==
    ShareUrl("p", UrlSafe(Deflate(Stringify(
        CompactPlaylistData(playlist, LibrarySounds(appData))))))

handleSharePlaylist ==
    /\ mounted
    /\ isPlaylistMode /\ activePlaylist # nullObj
    /\ UNCHANGED <<sessionVars, ambientVars, importVars, search, mounted, textVars>>
    /\ IF Len(activePlaylist.items) = 0
       THEN /\ lastAlert' = "Cannot share an empty playlist"
            /\ UNCHANGED <<clipboard, consoleError>>
       ELSE WriteOrAlert(PlaylistShareUrl(activePlaylist), "URL is too long",
                         "Failed to create share URL.", "Share playlist error:")

----------------------------------------------------------------------------
(* The environment *)

\* the copied address is opened: a new page over the same localStorage,
\* which loadAppData reads with its defaults
OpenShareUrl ==
    /\ mounted
    /\ clipboard.param # "none"
    /\ currentVideo' = nullObj
    /\ videoUrl' = ""
    /\ videoId' = null
    /\ localVideoUrl' = null
    /\ localVideoName' = ""
    /\ generalNotes' = ""
    /\ annotations' = <<>>
    /\ activePlaylist' = nullObj
    /\ playlistIndex' = 0
    /\ isPlaylistMode' = FALSE
    /\ sidebarTab' = "annotations"
    /\ ambientVideoId' = null
    /\ currentAmbientId' = null
    /\ ambientVideoTitle' = ""
    /\ ambientPlaying' = TRUE
    /\ showImportModal' = FALSE
    /\ pendingImportData' = nullObj
    /\ pendingImportVideo' = nullObj
    /\ localVideosToLink' = <<>>
    /\ currentLinkingVideo' = nullObj
    /\ linkedLocalVideos' = Empty
    /\ importTargetFolderId' = null
    /\ selectedFolderId' = null
    /\ mounted' = FALSE
    /\ search' = [d |-> (IF clipboard.param = "d" THEN clipboard.urlSafe ELSE Absent),
                  p |-> (IF clipboard.param = "p" THEN clipboard.urlSafe ELSE Absent)]
    /\ lastAlert' = ""
    /\ consoleError' = ""
    /\ appData' = [ambientSounds |-> LibrarySounds(appData)] @@ appData
    /\ UNCHANGED <<clipboard, textVars>>

Next ==
    \/ LoadSharedVideo
    \/ LoadSharedPlaylist
    \/ LoadNothing
    \/ handleShare
    \/ handleSharePlaylist
    \/ OpenShareUrl

Spec == Init /\ [][Next]_vars

----------------------------------------------------------------------------
(* The remap on its own: a text btoa returned is made URL-safe by a share  *)
(* handler and restored by the effect of the page that opens the link      *)

InitRemap ==
    /\ FreshPage
    /\ mounted = FALSE
    /\ search = NoSearch
    /\ appData = Library(<<>>, <<>>)
    /\ selectedFolderId = null
    /\ clipboard = [param |-> "none"]
    /\ lastAlert = ""
    /\ consoleError = ""
    /\ base64Text \in Base64Texts
    /\ urlSafeText = Unset
    /\ paddedText = Unset

\* const urlSafe = base64.replace(...).replace(...).replace(...)
RemapUrlSafe ==
    /\ urlSafeText = Unset
    /\ urlSafeText' = ToUrlSafe(base64Text)
    /\ UNCHANGED <<sessionVars, ambientVars, importVars, envVars, base64Text, paddedText>>

\* const padded = base64 + '='.repeat(...)
RestoreBase64 ==
    /\ urlSafeText # Unset
    /\ paddedText = Unset
    /\ paddedText' = FromUrlSafe(urlSafeText)
    /\ UNCHANGED <<sessionVars, ambientVars, importVars, envVars, base64Text, urlSafeText>>

NextRemap == RemapUrlSafe \/ RestoreBase64

SpecRemap == InitRemap /\ [][NextRemap]_vars

----------------------------------------------------------------------------
(* The life of an address: the page is opened, its effect runs once, and   *)
(* the browser may load the same address again                             *)

\* the page is reloaded: a new page over the address the last one left and
\* the same localStorage
ReloadPage ==
    /\ mounted
    /\ currentVideo' = nullObj
    /\ videoUrl' = ""
    /\ videoId' = null
    /\ localVideoUrl' = null
    /\ localVideoName' = ""
    /\ generalNotes' = ""
    /\ annotations' = <<>>
    /\ activePlaylist' = nullObj
    /\ playlistIndex' = 0
    /\ isPlaylistMode' = FALSE
    /\ sidebarTab' = "annotations"
    /\ ambientVideoId' = null
    /\ currentAmbientId' = null
    /\ ambientVideoTitle' = ""
    /\ ambientPlaying' = TRUE
    /\ showImportModal' = FALSE
    /\ pendingImportData' = nullObj
    /\ pendingImportVideo' = nullObj
    /\ localVideosToLink' = <<>>
    /\ currentLinkingVideo' = nullObj
    /\ linkedLocalVideos' = Empty
    /\ importTargetFolderId' = null
    /\ selectedFolderId' = null
    /\ mounted' = FALSE
    /\ lastAlert' = ""
    /\ consoleError' = ""
    /\ appData' = [ambientSounds |-> LibrarySounds(appData)] @@ appData
    /\ UNCHANGED <<search, clipboard, textVars>>

InitReload ==
    /\ clipboard = [param |-> "none"]
    /\ lastAlert = ""
    /\ consoleError = ""
    /\ base64Text = Unset /\ urlSafeText = Unset /\ paddedText = Unset
    /\ selectedFolderId = null
    /\ InitOpened

NextReload ==
    \/ LoadSharedVideo
    \/ LoadSharedPlaylist
    \/ LoadNothing
    \/ ReloadPage

SpecReload == InitReload /\ [][NextReload]_vars

----------------------------------------------------------------------------

(* The backup importer and the relink wizard of the import modal *)

\* URL.createObjectURL(file)
ObjectUrls == {"blob:3"}

\* videos of a backup file: two local files under one id, a local file
\* without a file name, a streaming video
FileVideos ==
    {[id |-> "f1/1", videoId |-> "", title |-> "clip", url |-> "",
      generalNotes |-> "note", annotations |-> <<[id |-> "0", timestamp |-> 0, title |-> "A"]>>,
      createdAt |-> 0, isLocalFile |-> TRUE, localFileName |-> "clip.mp4"],
     [id |-> "f1/1", videoId |-> "", title |-> "take", url |-> "",
      generalNotes |-> "", annotations |-> <<>>,
      createdAt |-> 0, isLocalFile |-> TRUE, localFileName |-> "take.mp4"],
     [id |-> "f1/2", videoId |-> "", title |-> "Untitled Video", url |-> "",
      generalNotes |-> "", annotations |-> <<>>, createdAt |-> 0, isLocalFile |-> TRUE],
     [id |-> "f1/3", videoId |-> "vidA", title |-> "Video A", url |-> "https://youtu.be/vidA",
      generalNotes |-> "note", annotations |-> <<>>, createdAt |-> 0]}

Folder1 == [id |-> "f1", name |-> "Clips", parentId |-> null, isExpanded |-> TRUE]
Folder2 == [id |-> "f2", name |-> "Talks", parentId |-> null, isExpanded |-> TRUE]

\* what JSON.parse makes of the chosen file
BackupFiles ==
    {[version |-> 2, video |-> v] : v \in FileVideos}
      \cup {[folders |-> <<Folder1, Folder2>>, videos |-> vs] @@ pl :
               vs \in SeqsUpTo(FileVideos, MaxFile),
               pl \in {Empty, [playlists |-> <<>>]}}
      \cup {[version |-> 1]}

\* the library of a page in use: two folders and a local video that is not
\* linked in this page
SavedLibrary ==
    [folders |-> <<Folder1, Folder2>>,
     videos |-> <<[id |-> "f1/7", videoId |-> "", title |-> "old", url |-> "",
                   generalNotes |-> "", annotations |-> <<>>, createdAt |-> 0,
                   isLocalFile |-> TRUE, localFileName |-> "old.mp4"]>>,
     playlists |-> <<>>, ambientSounds |-> <<>>]

\* array.filter(v => v.isLocalFile)
RECURSIVE LocalVideos(_)
LocalVideos(videos) ==
    IF videos = <<>> THEN <<>>
    ELSE (IF IsTrue(Head(videos), "isLocalFile") THEN <<Head(videos)>> ELSE <<>>)
            \o LocalVideos(Tail(videos))

\* localVideosToLink.findIndex(v => v.id === currentLinkingVideo.id)
CurrentIndex ==
    FindIndex({k \in 1..Len(localVideosToLink) :
                  localVideosToLink[k].id = currentLinkingVideo.id})

\* "Move to next video or finish" of both wizard handlers
MoveToNext ==
    currentLinkingVideo' =
        IF CurrentIndex < Len(localVideosToLink) - 1
        THEN localVideosToLink[CurrentIndex + 2]
        ELSE nullObj

\* the setters of handleCancelImport but setLinkedLocalVideos
CloseImportKeepingLinks ==
    /\ showImportModal' = FALSE
    /\ pendingImportData' = nullObj
    /\ pendingImportVideo' = nullObj
    /\ importTargetFolderId' = null
    /\ localVideosToLink' = <<>>
    /\ currentLinkingVideo' = nullObj
    /\ UNCHANGED linkedLocalVideos

\* the seven setters that close the modal
CloseImport ==
    /\ showImportModal' = FALSE
    /\ pendingImportData' = nullObj
    /\ pendingImportVideo' = nullObj
    /\ importTargetFolderId' = null
    /\ localVideosToLink' = <<>>
    /\ currentLinkingVideo' = nullObj
    /\ linkedLocalVideos' = Empty

\* linkedLocalVideos.get(id)
LinkedUrl(id) == IF id \in DOMAIN linkedLocalVideos THEN linkedLocalVideos[id] ELSE undefined

\* reader.onload of handleImportFile, data being the parsed file; the Import
\* button lies under the overlay of the open modal
handleImportFile ==
    /\ mounted
    /\ ~showImportModal
    /\ Len(appData.videos) < MaxSaved
    /\ \E data \in BackupFiles :
          IF "video" \in DOMAIN data /\ data.version = 2
          THEN /\ pendingImportVideo' = data.video
               /\ importTargetFolderId' =
                     (IF Len(appData.folders) > 0 THEN appData.folders[1].id ELSE null)
               /\ IF IsTrue(data.video, "isLocalFile")
                  THEN /\ localVideosToLink' = <<data.video>>
                       /\ currentLinkingVideo' = data.video
                       /\ linkedLocalVideos' = Empty
                  ELSE UNCHANGED <<localVideosToLink, currentLinkingVideo, linkedLocalVideos>>
               /\ showImportModal' = TRUE
               /\ UNCHANGED <<appData, pendingImportData, lastAlert>>
          ELSE IF "folders" \in DOMAIN data /\ "videos" \in DOMAIN data
          THEN LET localVideos == LocalVideos(data.videos)
               IN IF Len(localVideos) > 0
                  THEN /\ pendingImportData' = data
                       /\ localVideosToLink' = localVideos
                       /\ currentLinkingVideo' = localVideos[1]
                       /\ linkedLocalVideos' = Empty
                       /\ showImportModal' = TRUE
                       /\ UNCHANGED <<appData, pendingImportVideo, importTargetFolderId,
                                      lastAlert>>
                  ELSE /\ appData' = [folders |-> data.folders, videos |-> data.videos,
                                      playlists |-> LibraryPlaylists(data)]
                       /\ UNCHANGED <<importVars, lastAlert>>
          ELSE /\ lastAlert' = "Invalid backup file format"
               /\ UNCHANGED <<appData, importVars>>
    /\ UNCHANGED <<selectedFolderId, currentVideo, videoUrl, videoId, localVideoUrl,
                   localVideoName, generalNotes, annotations, activePlaylist,
                   playlistIndex, isPlaylistMode, sidebarTab>>
    /\ UNCHANGED <<ambientVars, search, mounted, clipboard, consoleError, textVars>>

\* the folder select of the import modal
selectImportFolder ==
    /\ mounted
    /\ showImportModal
    /\ pendingImportVideo # nullObj
    /\ Len(appData.folders) > 0
    /\ \E k \in 1..Len(appData.folders) :
          importTargetFolderId' = Or(appData.folders[k].id, null)
    /\ UNCHANGED <<sessionVars, ambientVars, envVars, textVars>>
    /\ UNCHANGED <<showImportModal, pendingImportData, pendingImportVideo,
                   localVideosToLink, currentLinkingVideo, linkedLocalVideos>>

\* a saved video is clicked in the folder tree, which lies under the overlay
\* of the open modal
loadVideo ==
    /\ mounted
    /\ ~showImportModal
    /\ \E k \in 1..Len(appData.videos) :
       LET video == appData.videos[k]
       IN /\ isPlaylistMode' = FALSE
          /\ activePlaylist' = nullObj
          /\ playlistIndex' = 0
          /\ currentVideo' = video
          /\ generalNotes' = Get(video, "generalNotes")
          /\ annotations' = video.annotations
          /\ videoId' = (IF IsTrue(video, "isLocalFile") THEN null ELSE video.videoId)
          /\ videoUrl' = (IF IsTrue(video, "isLocalFile") THEN "" ELSE video.url)
          /\ IF IsTrue(video, "isLocalFile")
             THEN IF Truthy(video.url) /\ StartsWithBlob(video.url)
                  THEN /\ localVideoUrl' = video.url
                       /\ localVideoName' = Or(Get(video, "localFileName"), "Local Video")
                       /\ UNCHANGED importVars
                  ELSE /\ localVideoUrl' = null
                       /\ localVideoName' = Or(Get(video, "localFileName"), "")
                       /\ localVideosToLink' = <<video>>
                       /\ currentLinkingVideo' = video
                       /\ linkedLocalVideos' = Empty
                       /\ showImportModal' = TRUE
                       /\ UNCHANGED <<pendingImportData, pendingImportVideo,
                                      importTargetFolderId>>
             ELSE /\ localVideoUrl' = null
                  /\ localVideoName' = ""
                  /\ UNCHANGED importVars
    /\ UNCHANGED <<appData, selectedFolderId, sidebarTab>>
    /\ UNCHANGED <<ambientVars, envVars, textVars>>

\* the wizard's file input, shown while there is a video to link
handleLinkVideoFile ==
    /\ mounted
    /\ showImportModal
    /\ currentLinkingVideo # nullObj
    /\ \E url \in ObjectUrls :
          linkedLocalVideos' = (currentLinkingVideo.id :> url) @@ linkedLocalVideos
    /\ MoveToNext
    /\ UNCHANGED <<sessionVars, ambientVars, envVars, textVars>>
    /\ UNCHANGED <<showImportModal, pendingImportData, pendingImportVideo,
                   localVideosToLink, importTargetFolderId>>

\* the Skip button, shown while there is a video to link out of several
handleSkipLinkVideo ==
    /\ mounted
    /\ showImportModal
    /\ currentLinkingVideo # nullObj
    /\ Len(localVideosToLink) > 1
    /\ MoveToNext
    /\ UNCHANGED <<sessionVars, ambientVars, envVars, textVars>>
    /\ UNCHANGED <<showImportModal, pendingImportData, pendingImportVideo,
                   localVideosToLink, linkedLocalVideos, importTargetFolderId>>

\* videos of the pending backup with the linked URLs put in
UpdatedVideos(videos) ==
    [k \in 1..Len(videos) |->
        IF IsTrue(videos[k], "isLocalFile") /\ videos[k].id \in DOMAIN linkedLocalVideos
        THEN ("url" :> linkedLocalVideos[videos[k].id]) @@ videos[k]
        ELSE videos[k]]

\* the single-video branch of handleCompleteImport: t1 and t2 are the two
\* readings of Date.now()
CompleteVideoImport(t1, t2) ==
    LET newFolder == [id |-> ToString(t1), name |-> "Imported", parentId |-> null,
                      isExpanded |-> TRUE]
        targetFolderId == IF Truthy(importTargetFolderId) THEN importTargetFolderId
                          ELSE newFolder.id
        linkedUrl == LinkedUrl(pendingImportVideo.id)
        newVideo == [id |-> targetFolderId \o "/" \o ToString(t2),
                     url |-> Or(linkedUrl, pendingImportVideo.url)] @@ pendingImportVideo
    IN /\ appData' =
             [appData EXCEPT
                !.folders = IF Truthy(importTargetFolderId) THEN @ ELSE Append(@, newFolder),
                !.videos = Append(@, newVideo)]
       /\ IF IsTrue(newVideo, "isLocalFile") /\ Truthy(linkedUrl)
          THEN /\ localVideoUrl' = linkedUrl
               /\ localVideoName' = Or(Get(newVideo, "localFileName"), "Local Video")
               /\ videoId' = null
               /\ videoUrl' = ""
          ELSE IF ~IsTrue(newVideo, "isLocalFile")
          THEN /\ videoUrl' = newVideo.url
               /\ videoId' = newVideo.videoId
               /\ localVideoUrl' = null
               /\ localVideoName' = ""
          ELSE UNCHANGED <<localVideoUrl, localVideoName, videoId, videoUrl>>
       /\ generalNotes' = Get(newVideo, "generalNotes")
       /\ annotations' = newVideo.annotations
       /\ currentVideo' = newVideo
       /\ selectedFolderId' = targetFolderId

\* the Import / Complete Import / Done button, shown when no video is left
\* to link or when the pending video is not a local file
handleCompleteImport ==
    /\ mounted
    /\ showImportModal
    /\ \/ currentLinkingVideo = nullObj
       \/ pendingImportVideo # nullObj /\ ~IsTrue(pendingImportVideo, "isLocalFile")
    /\ IF pendingImportVideo # nullObj
       THEN \E t1, t2 \in Clock : t1 <= t2 /\ CompleteVideoImport(t1, t2)
       ELSE IF pendingImportData # nullObj
       THEN /\ appData' = [folders |-> pendingImportData.folders,
                           videos |-> UpdatedVideos(pendingImportData.videos),
                           playlists |-> LibraryPlaylists(pendingImportData)]
            /\ UNCHANGED <<selectedFolderId, currentVideo, videoUrl, videoId, localVideoUrl,
                           localVideoName, generalNotes, annotations>>
       ELSE IF Len(localVideosToLink) = 1 /\ currentVideo # nullObj
       THEN LET linkedUrl == LinkedUrl(localVideosToLink[1].id)
            IN IF Truthy(linkedUrl)
               THEN /\ appData' =
                        [appData EXCEPT !.videos =
                            [k \in 1..Len(@) |->
                                IF @[k].id = localVideosToLink[1].id
                                THEN ("url" :> linkedUrl) @@ @[k] ELSE @[k]]]
                    /\ localVideoUrl' = linkedUrl
                    /\ localVideoName' =
                          Or(Get(localVideosToLink[1], "localFileName"), "Local Video")
                    /\ UNCHANGED <<selectedFolderId, currentVideo, videoUrl, videoId,
                                   generalNotes, annotations>>
               ELSE UNCHANGED <<appData, selectedFolderId, currentVideo, videoUrl, videoId,
                                localVideoUrl, localVideoName, generalNotes, annotations>>
       ELSE IF Len(localVideosToLink) = 1 /\ currentVideo = nullObj
       THEN LET linkedUrl == LinkedUrl(localVideosToLink[1].id)
            IN IF Truthy(linkedUrl)
               THEN /\ localVideoUrl' = linkedUrl
                    /\ localVideoName' =
                          Or(Get(localVideosToLink[1], "localFileName"), "Local Video")
                    /\ videoId' = null
                    /\ videoUrl' = ""
                    /\ UNCHANGED <<appData, selectedFolderId, currentVideo,
                                   generalNotes, annotations>>
               ELSE UNCHANGED <<appData, selectedFolderId, currentVideo, videoUrl, videoId,
                                localVideoUrl, localVideoName, generalNotes, annotations>>
       ELSE UNCHANGED <<appData, selectedFolderId, currentVideo, videoUrl, videoId,
                        localVideoUrl, localVideoName, generalNotes, annotations>>
    /\ CloseImport
    /\ UNCHANGED <<activePlaylist, playlistIndex, isPlaylistMode, sidebarTab>>
    /\ UNCHANGED <<ambientVars, envVars, textVars>>

\* the Cancel button and a click on the overlay
handleCancelImport ==
    /\ mounted
    /\ showImportModal
    /\ CloseImport
    /\ UNCHANGED <<sessionVars, ambientVars, envVars, textVars>>

\* a page in use with or without saved videos, or a page just opened on the
\* share link of a local video
InitImport ==
    /\ FreshPage
    /\ selectedFolderId = null
    /\ clipboard = [param |-> "none"]
    /\ lastAlert = ""
    /\ consoleError = ""
    /\ base64Text = Unset /\ urlSafeText = Unset /\ paddedText = Unset
    /\ \/ /\ mounted = TRUE
          /\ search = NoSearch
          /\ appData \in {Library(<<>>, <<>>), SavedLibrary}
       \/ /\ mounted = FALSE
          /\ search = [d |-> WireOf([l |-> TRUE] @@ VideoSample), p |-> Absent]
          /\ appData = Library(<<>>, <<>>)

NextImport ==
    \/ LoadSharedVideo
    \/ handleImportFile
    \/ selectImportFolder
    \/ loadVideo
    \/ handleLinkVideoFile
    \/ handleSkipLinkVideo
    \/ handleCompleteImport
    \/ handleCancelImport

SpecImport == InitImport /\ [][NextImport]_vars

----------------------------------------------------------------------------

(* Steps and helpers the properties speak of *)

\* the whole session store
storeVars == <<sessionVars, ambientVars, importVars>>

\* a step of the load-on-mount effect
LoadStep == ~mounted /\ mounted'

\* a step of the effect whose try block ended in its catch
RejectedStep == LoadStep /\ consoleError' # ""

\* the decoder branch the effect takes
VideoBranch == WireTruthy(search.d)
PlaylistBranch == ~WireTruthy(search.d) /\ WireTruthy(search.p)

\* [...].sort((a, b) => a.timestamp - b.timestamp): stable, ascending
RECURSIVE InsertByTimestamp(_, _)
InsertByTimestamp(sorted, x) ==
    IF sorted = <<>> THEN <<x>>
    ELSE IF Head(sorted).timestamp <= x.timestamp
         THEN <<Head(sorted)>> \o InsertByTimestamp(Tail(sorted), x)
         ELSE <<x>> \o sorted

RECURSIVE SortByTimestamp(_)
SortByTimestamp(s) ==
    IF s = <<>> THEN <<>>
    ELSE InsertByTimestamp(SortByTimestamp(SubSeq(s, 1, Len(s) - 1)), s[Len(s)])

\* the payload of a share parameter parses to a JSON object
ParsesToObject(w) ==
    /\ w.enc = "b64url"
    /\ w.bytes.fmt = "zlib"
    /\ w.bytes.text.syntax = "object"

----------------------------------------------------------------------------
(* Editing the annotations of a session *)

\* annotations as the handlers leave them, each under its own id, in
\* ascending time
SessionMarkers ==
    {s \in SeqsUpTo([id : {"0", "1"}, timestamp : 0..MaxTime, title : {"A"}], MaxMarkers) :
        /\ \A j, k \in 1..Len(s) : j < k => s[j].timestamp <= s[k].timestamp
        /\ \A j, k \in 1..Len(s) : j # k => s[j].id # s[k].id}

\* a saved streaming video with its annotations
SavedVideoB ==
    [id |-> "f1/8", videoId |-> "vidB", title |-> "Video B",
     url |-> "https://youtu.be/vidB", generalNotes |-> "",
     annotations |-> <<[id |-> "7", timestamp |-> 0, title |-> "A"],
                       [id |-> "8", timestamp |-> 1, title |-> "B"]>>,
     createdAt |-> 0]

\* the Add button: title is newAnnotation.trim(), currentTime the position
\* the player reports, t the reading of Date.now(), later than the readings
\* the other annotations got their ids from
handleAddAnnotation ==
    /\ mounted
    /\ Truthy(localVideoUrl) \/ Truthy(videoId)
    /\ Len(annotations) < MaxMarkers
    /\ \E title \in {"A", "B"}, currentTime \in 0..MaxTime, t \in Clock :
          /\ \A k \in 1..Len(annotations) : annotations[k].id # ToString(t)
          /\ annotations' = SortByTimestamp(Append(annotations,
                 [id |-> ToString(t), timestamp |-> currentTime, title |-> title]))
    /\ UNCHANGED <<appData, selectedFolderId, currentVideo, videoUrl, videoId, localVideoUrl,
                   localVideoName, generalNotes, activePlaylist, playlistIndex,
                   isPlaylistMode, sidebarTab>>
    /\ UNCHANGED <<ambientVars, importVars, envVars, textVars>>

\* prev.map(a => a.id === id ? { ...a, ...updates } : a), a description of
\* undefined being a description that is absent
Updated(anns, id, updates) ==
    [k \in 1..Len(anns) |->
        IF anns[k].id = id
        THEN Without(updates @@ anns[k],
                     IF "description" \in DOMAIN updates THEN {} ELSE {"description"})
        ELSE anns[k]]

\* AnnotationItem.handleSave and handleUpdateAnnotation: editTitle and
\* editDescription are the trimmed fields, newTimestamp what parseTime made
\* of the time field when it reads m:ss (parsed), null otherwise
handleUpdateAnnotation ==
    /\ mounted
    /\ \E k \in 1..Len(annotations), editTitle \in {"", "C"}, editDescription \in {"", "desc"},
          parsed \in BOOLEAN, newTimestamp \in 0..MaxTime :
          annotations' =
              Updated(annotations, annotations[k].id,
                      [title |-> Or(editTitle, annotations[k].title)]
                         @@ (IF Truthy(editDescription)
                             THEN [description |-> editDescription] ELSE Empty)
                         @@ (IF parsed
                             THEN [timestamp |-> newTimestamp] ELSE Empty))
    /\ UNCHANGED <<appData, selectedFolderId, currentVideo, videoUrl, videoId, localVideoUrl,
                   localVideoName, generalNotes, activePlaylist, playlistIndex,
                   isPlaylistMode, sidebarTab>>
    /\ UNCHANGED <<ambientVars, importVars, envVars, textVars>>

\* prev.filter(a => a.id !== id)
RECURSIVE WithoutId(_, _)
WithoutId(anns, id) ==
    IF anns = <<>> THEN <<>>
    ELSE (IF Head(anns).id # id THEN <<Head(anns)>> ELSE <<>>) \o WithoutId(Tail(anns), id)

handleDeleteAnnotation ==
    /\ mounted
    /\ \E k \in 1..Len(annotations) :
          annotations' = WithoutId(annotations, annotations[k].id)
    /\ UNCHANGED <<appData, selectedFolderId, currentVideo, videoUrl, videoId, localVideoUrl,
                   localVideoName, generalNotes, activePlaylist, playlistIndex,
                   isPlaylistMode, sidebarTab>>
    /\ UNCHANGED <<ambientVars, importVars, envVars, textVars>>

\* a page in use with a video and its annotations, over a library with a
\* saved video, or a page just opened on a video share
InitEdit ==
    /\ FreshPlaylist /\ FreshAmbient /\ FreshImport
    /\ selectedFolderId = null
    /\ clipboard = [param |-> "none"]
    /\ lastAlert = ""
    /\ consoleError = ""
    /\ base64Text = Unset /\ urlSafeText = Unset /\ paddedText = Unset
    /\ currentVideo = nullObj
    /\ localVideoUrl = null
    /\ localVideoName = ""
    /\ appData = [folders |-> <<Folder1>>, videos |-> <<SavedVideoB>>,
                  playlists |-> <<>>, ambientSounds |-> <<>>]
    /\ \/ /\ mounted = TRUE
          /\ search = NoSearch
          /\ videoId = "vidA"
          /\ videoUrl = "https://youtu.be/vidA"
          /\ generalNotes = "note"
          /\ annotations \in SessionMarkers
       \/ /\ mounted = FALSE
          /\ search = [d |-> WireOf(VideoSample), p |-> Absent]
          /\ videoId = null
          /\ videoUrl = ""
          /\ generalNotes = ""
          /\ annotations = <<>>

NextEdit ==
    \/ LoadSharedVideo
    \/ loadVideo
    \/ handleAddAnnotation
    \/ handleUpdateAnnotation
    \/ handleDeleteAnnotation

SpecEdit == InitEdit /\ [][NextEdit]_vars

----------------------------------------------------------------------------

(* Playing a playlist *)

\* the k-th item of a saved playlist: the second is a local file linked in
\* this page, the others are streaming videos
ItemAt(k) ==
    IF k = 2
    THEN [id |-> "i2", videoId |-> "", url |-> "blob:1", title |-> "clip.mp4",
          isLocalFile |-> TRUE, localFileName |-> "clip.mp4"]
    ELSE [id |-> "i" \o ToString(k), videoId |-> "vid" \o ToString(k),
          url |-> "https://youtu.be/vid" \o ToString(k), title |-> "Video " \o ToString(k)]

\* the playlists of the library
SavedPlaylists ==
    {[id |-> "7", name |-> "P", items |-> [k \in 1..n |-> ItemAt(k)], createdAt |-> 0,
      loop |-> lp] @@ flags :
        n \in 0..MaxItems, lp \in BOOLEAN, flags \in {Empty, [startRandom |-> TRUE]}}

\* appData.playlists.map(p => p.id === playlistId ? { ...p, items } : p),
\* items being made from p.items by the operator of the same name below
WithItemsRemoved(playlists, playlistId, itemId) ==
    [k \in 1..Len(playlists) |->
        IF playlists[k].id = playlistId
        THEN [playlists[k] EXCEPT !.items = WithoutId(@, itemId)]
        ELSE playlists[k]]

\* items.splice(fromIndex, 1) then items.splice(toIndex, 0, removed), on
\* indexes within the list
Moved(items, fromIndex, toIndex) ==
    LET removed == items[fromIndex + 1]
        rest == SubSeq(items, 1, fromIndex) \o SubSeq(items, fromIndex + 2, Len(items))
    IN SubSeq(rest, 1, toIndex) \o <<removed>> \o SubSeq(rest, toIndex + 1, Len(rest))

WithItemsMoved(playlists, playlistId, fromIndex, toIndex) ==
    [k \in 1..Len(playlists) |->
        IF playlists[k].id = playlistId
        THEN [playlists[k] EXCEPT !.items = Moved(@, fromIndex, toIndex)]
        ELSE playlists[k]]

\* loadPlaylistItem(item): playerReady tells whether playerRef.current holds
\* a player
loadPlaylistItem(item, playerReady) ==
    /\ currentVideo' = nullObj
    /\ generalNotes' = ""
    /\ annotations' = <<>>
    /\ IF IsTrue(item, "isLocalFile")
       THEN /\ localVideoUrl' = item.url
            /\ localVideoName' = Or(Get(item, "localFileName"), item.title)
            /\ videoId' = null
            /\ videoUrl' = ""
       ELSE /\ videoUrl' = item.url
            /\ localVideoUrl' = null
            /\ localVideoName' = ""
            /\ IF playerReady /\ Truthy(videoId)
               THEN UNCHANGED videoId
               ELSE videoId' = item.videoId

\* the Play button of a playlist of the library, with the callback it hands
\* to setTimeout(.., 0); startIndex is the random draw under startRandom
playPlaylist ==
    /\ mounted
    /\ ~showImportModal
    /\ \E p \in 1..Len(appData.playlists) :
       LET currentPlaylist == appData.playlists[p]
           n == Len(currentPlaylist.items)
       IN \E actualStartIndex \in (IF IsTrue(currentPlaylist, "startRandom") /\ n > 0
                                   THEN 0..(n - 1) ELSE {0}) :
          /\ localVideoUrl' = null
          /\ localVideoName' = ""
          /\ activePlaylist' = currentPlaylist
          /\ playlistIndex' = actualStartIndex
          /\ isPlaylistMode' = TRUE
          /\ IF ~Truthy(currentAmbientId) /\ Len(LibrarySounds(appData)) > 0
             THEN /\ ambientVideoId' = LibrarySounds(appData)[1].videoId
                  /\ currentAmbientId' = LibrarySounds(appData)[1].videoId
                  /\ ambientVideoTitle' = LibrarySounds(appData)[1].title
                  /\ ambientPlaying' = TRUE
             ELSE UNCHANGED ambientVars
          /\ videoId' = (IF n > 0 THEN currentPlaylist.items[actualStartIndex + 1].videoId
                         ELSE null)
          /\ videoUrl' = (IF n > 0 THEN currentPlaylist.items[actualStartIndex + 1].url
                          ELSE "")
          /\ currentVideo' = nullObj
          /\ generalNotes' = ""
          /\ annotations' = <<>>
    /\ UNCHANGED <<appData, selectedFolderId, sidebarTab>>
    /\ UNCHANGED <<importVars, envVars, textVars>>

\* playlistNext: under startRandom the draw differs from the current index
\* when there is more than one item; at the end of a playlist that does not
\* loop the function returns
playlistNext ==
    /\ mounted
    /\ activePlaylist # nullObj
    /\ Len(activePlaylist.items) > 0
    /\ LET n == Len(activePlaylist.items)
       IN IF ~IsTrue(activePlaylist, "startRandom") /\ playlistIndex + 1 >= n
             /\ ~IsTrue(activePlaylist, "loop")
          THEN UNCHANGED vars
          ELSE /\ \E nextIndex \in
                       (IF IsTrue(activePlaylist, "startRandom")
                        THEN (IF n = 1 THEN {0} ELSE (0..(n - 1)) \ {playlistIndex})
                        ELSE (IF playlistIndex + 1 >= n THEN {0} ELSE {playlistIndex + 1})),
                    playerReady \in BOOLEAN :
                     /\ playlistIndex' = nextIndex
                     /\ loadPlaylistItem(activePlaylist.items[nextIndex + 1], playerReady)
               /\ UNCHANGED <<appData, selectedFolderId, activePlaylist, isPlaylistMode,
                              sidebarTab>>
               /\ UNCHANGED <<ambientVars, importVars, envVars, textVars>>

\* playlistPrev
playlistPrev ==
    /\ mounted
    /\ activePlaylist # nullObj
    /\ Len(activePlaylist.items) > 0
    /\ IF playlistIndex - 1 < 0 /\ ~IsTrue(activePlaylist, "loop")
       THEN UNCHANGED vars
       ELSE /\ \E playerReady \in BOOLEAN :
               LET prevIndex == IF playlistIndex - 1 < 0 THEN Len(activePlaylist.items) - 1
                                ELSE playlistIndex - 1
               IN /\ playlistIndex' = prevIndex
                  /\ loadPlaylistItem(activePlaylist.items[prevIndex + 1], playerReady)
            /\ UNCHANGED <<appData, selectedFolderId, activePlaylist, isPlaylistMode,
                           sidebarTab>>
            /\ UNCHANGED <<ambientVars, importVars, envVars, textVars>>

\* playlistGoTo(index), index being the place of the row clicked
playlistGoTo ==
    /\ mounted
    /\ activePlaylist # nullObj
    /\ \E index \in 0..(Len(activePlaylist.items) - 1), playerReady \in BOOLEAN :
          /\ playlistIndex' = index
          /\ loadPlaylistItem(activePlaylist.items[index + 1], playerReady)
    /\ UNCHANGED <<appData, selectedFolderId, activePlaylist, isPlaylistMode, sidebarTab>>
    /\ UNCHANGED <<ambientVars, importVars, envVars, textVars>>

\* an index that stays where it is when an item is removed
AdjustedIndexKept(newItems) == playlistIndex

\* "Adjust index if needed" of removeVideoFromPlaylist
AdjustedIndex(newItems) ==
    IF playlistIndex >= Len(newItems) /\ Len(newItems) > 0
    THEN Len(newItems) - 1
    ELSE playlistIndex

\* removeVideoFromPlaylist(activePlaylist.id, item.id), from the row of an
\* item of the active playlist
removeVideoFromPlaylist ==
    /\ mounted
    /\ activePlaylist # nullObj
    /\ \E k \in 1..Len(activePlaylist.items) :
       LET itemId == activePlaylist.items[k].id
           newItems == WithoutId(activePlaylist.items, itemId)
       IN /\ appData' = [appData EXCEPT
                           !.playlists = WithItemsRemoved(@, activePlaylist.id, itemId)]
          /\ activePlaylist' = [activePlaylist EXCEPT !.items = newItems]
          /\ playlistIndex' = AdjustedIndex(newItems)
    /\ UNCHANGED <<selectedFolderId, currentVideo, videoUrl, videoId, localVideoUrl,
                   localVideoName, generalNotes, annotations, isPlaylistMode, sidebarTab>>
    /\ UNCHANGED <<ambientVars, importVars, envVars, textVars>>

\* reorderPlaylistItem(activePlaylist.id, index, index - 1 or index + 1 kept
\* within the list), from the arrows of a row of the active playlist
reorderPlaylistItem ==
    /\ mounted
    /\ activePlaylist # nullObj
    /\ \E index \in 0..(Len(activePlaylist.items) - 1) :
       \E toIndex \in {IF index - 1 < 0 THEN 0 ELSE index - 1,
                       IF index + 1 > Len(activePlaylist.items) - 1
                       THEN Len(activePlaylist.items) - 1 ELSE index + 1} :
          /\ appData' = [appData EXCEPT
                           !.playlists = WithItemsMoved(@, activePlaylist.id, index, toIndex)]
          /\ activePlaylist' = [activePlaylist EXCEPT !.items = Moved(@, index, toIndex)]
    /\ UNCHANGED <<selectedFolderId, currentVideo, videoUrl, videoId, localVideoUrl,
                   localVideoName, generalNotes, annotations, playlistIndex,
                   isPlaylistMode, sidebarTab>>
    /\ UNCHANGED <<ambientVars, importVars, envVars, textVars>>

\* the player reports the end of the video
handleVideoEnd ==
    /\ isPlaylistMode
    /\ activePlaylist # nullObj
    /\ Len(activePlaylist.items) > 0
    /\ playlistNext

\* a page in use over a library with one playlist
InitPlay ==
    /\ FreshPage
    /\ selectedFolderId = null
    /\ mounted = TRUE
    /\ search = NoSearch
    /\ clipboard = [param |-> "none"]
    /\ lastAlert = ""
    /\ consoleError = ""
    /\ base64Text = Unset /\ urlSafeText = Unset /\ paddedText = Unset
    /\ \E playlist \in SavedPlaylists, sounds \in {<<>>, <<Sound1>>} :
          appData = Library(<<playlist>>, sounds)

NextPlay ==
    \/ playPlaylist
    \/ playlistNext
    \/ playlistPrev
    \/ playlistGoTo
    \/ removeVideoFromPlaylist
    \/ reorderPlaylistItem
    \/ handleVideoEnd

SpecPlay == InitPlay /\ [][NextPlay]_vars

----------------------------------------------------------------------------

(* The folder tree of the sidebar *)

\* s.startsWith(p)
StartsWith(s, p) == Len(s) >= Len(p) /\ SubSeq(s, 1, Len(p)) = p

\* folders.map(f => f.id), as a set
FolderIds(folders) == {folders[k].id : k \in 1..Len(folders)}

\* a saved streaming video
SavedClip(id, title) ==
    [id |-> id, videoId |-> "abc", title |-> title, url |-> "https://youtu.be/abc",
     generalNotes |-> "", annotations |-> <<>>, createdAt |-> 0, isLocalFile |-> FALSE]

\* the libraries a page may load: none yet, and a folder inside a folder with
\* a video in each
FolderLibraries ==
    {[folders |-> <<>>, videos |-> <<>>, playlists |-> <<>>, ambientSounds |-> <<>>],
     [folders |-> <<[id |-> "1", name |-> "Clips", parentId |-> null, isExpanded |-> TRUE],
                    [id |-> "2", name |-> "Talks", parentId |-> "1", isExpanded |-> FALSE]>>,
      videos |-> <<SavedClip("1/5", "clip"), SavedClip("2/6", "talk")>>,
      playlists |-> <<>>, ambientSounds |-> <<>>]}

\* Date.now() of createFolder: the readings 1..MaxFolders
FolderClock == 1..MaxFolders

\* the names typed into the folder inputs, trimmed and not empty
FolderNames == {"New"}

\* createFolder(parentId, name): the + Folder input (parentId null) and the
\* subfolder input of a folder row.  The reading of Date.now() is later than
\* the readings the folders of the library got their ids from
createFolder ==
    /\ mounted
    /\ Len(appData.folders) < MaxFolders
    /\ \E parentId \in {null} \cup FolderIds(appData.folders),
          name \in FolderNames, t \in FolderClock :
          /\ ToString(t) \notin FolderIds(appData.folders)
          /\ appData' = [appData EXCEPT
                           !.folders = Append(@, [id |-> ToString(t), name |-> name,
                                                  parentId |-> parentId,
                                                  isExpanded |-> FALSE])]
          /\ selectedFolderId' = ToString(t)
    /\ UNCHANGED <<currentVideo, videoUrl, videoId, localVideoUrl, localVideoName,
                   generalNotes, annotations, activePlaylist, playlistIndex,
                   isPlaylistMode, sidebarTab>>
    /\ UNCHANGED <<ambientVars, importVars, envVars, textVars>>

\* renameFolder(id, name), called by handleRename of a folder row
renameFolder ==
    /\ mounted
    /\ \E id \in FolderIds(appData.folders), name \in FolderNames :
          appData' = [appData EXCEPT
                        !.folders = [k \in 1..Len(@) |->
                                        IF @[k].id = id THEN [@[k] EXCEPT !.name = name]
                                        ELSE @[k]]]
    /\ UNCHANGED <<selectedFolderId, currentVideo, videoUrl, videoId, localVideoUrl,
                   localVideoName, generalNotes, annotations, activePlaylist,
                   playlistIndex, isPlaylistMode, sidebarTab>>
    /\ UNCHANGED <<ambientVars, importVars, envVars, textVars>>

\* getDescendantIds(id) over the folders of appData, as a set: the callers
\* only ask what it includes
RECURSIVE getDescendantIds(_, _)
getDescendantIds(folders, id) ==
    LET children == {k \in 1..Len(folders) : folders[k].parentId = id}
    IN {id} \cup UNION {getDescendantIds(folders, folders[c].id) : c \in children}

IdsToDeleteAlone(id) == {id}

\* const idsToDelete = getDescendantIds(id)
IdsToDelete(id) == getDescendantIds(appData.folders, id)

\* deleteFolder(id)
deleteFolder(id) ==
    LET idsToDelete == IdsToDelete(id)
    IN /\ appData' =
            [appData EXCEPT
               !.folders = SelectSeq(@, LAMBDA f : f.id \notin idsToDelete),
               !.videos = SelectSeq(@, LAMBDA v :
                             ~\E fid \in idsToDelete : StartsWith(v.id, fid \o "/"))]
       /\ selectedFolderId' =
            IF Truthy(selectedFolderId) /\ selectedFolderId \in idsToDelete
            THEN null ELSE selectedFolderId
       /\ UNCHANGED <<currentVideo, videoUrl, videoId, localVideoUrl, localVideoName,
                      generalNotes, annotations, activePlaylist, playlistIndex,
                      isPlaylistMode, sidebarTab>>
       /\ UNCHANGED <<ambientVars, importVars, envVars, textVars>>

\* the Delete button of a folder row
onDeleteFolder ==
    /\ mounted
    /\ \E id \in FolderIds(appData.folders) : deleteFolder(id)

\* folders.find(f => f.id === folderId), null when there is none
FindFolder(folders, folderId) ==
    IF \E k \in 1..Len(folders) : folders[k].id = folderId
    THEN folders[CHOOSE k \in 1..Len(folders) :
                    /\ folders[k].id = folderId
                    /\ \A j \in 1..(k - 1) : folders[j].id # folderId]
    ELSE nullObj

\* moveFolder(folderId, newParentId)
moveFolder(folderId, newParentId) ==
    LET folder == FindFolder(appData.folders, folderId)
    IN IF folder = nullObj \/ folder.parentId = newParentId
       THEN UNCHANGED appData
       ELSE IF Truthy(newParentId)
               /\ newParentId \in getDescendantIds(appData.folders, folderId)
       THEN UNCHANGED appData
       ELSE appData' = [appData EXCEPT
                          !.folders = [k \in 1..Len(@) |->
                                          IF @[k].id = folderId
                                          THEN [@[k] EXCEPT !.parentId = newParentId]
                                          ELSE @[k]]]

\* video.id.split('/') and its last part, for the ids the library holds
UniquePart(id) ==
    CHOOSE u \in {"5", "6"} : Len(id) >= 2 /\ SubSeq(id, Len(id) - 1, Len(id)) = "/" \o u

\* moveVideo(videoId, newFolderId), for a video of the library
moveVideo(dragId, newFolderId) ==
    LET newVideoId == newFolderId \o "/" \o UniquePart(dragId)
    IN IF dragId = newVideoId
       THEN UNCHANGED <<appData, currentVideo>>
       ELSE /\ appData' = [appData EXCEPT
                             !.videos = [k \in 1..Len(@) |->
                                            IF @[k].id = dragId
                                            THEN [@[k] EXCEPT !.id = newVideoId]
                                            ELSE @[k]]]
            /\ currentVideo' =
                 IF currentVideo # nullObj /\ currentVideo.id = dragId
                 THEN [currentVideo EXCEPT !.id = newVideoId]
                 ELSE currentVideo

\* what handleDragStart may have put into draggedItem: a folder row or a
\* video row of the sidebar
DragItems ==
    {[type |-> "folder", id |-> id] : id \in FolderIds(appData.folders)}
      \cup {[type |-> "video", id |-> appData.videos[k].id] : k \in 1..Len(appData.videos)}

\* handleDrop(targetFolderId) with draggedItem set
handleDrop(draggedItem, targetFolderId) ==
    /\ IF draggedItem.type = "folder"
       THEN moveFolder(draggedItem.id, targetFolderId) /\ UNCHANGED currentVideo
       ELSE IF draggedItem.type = "video" /\ Truthy(targetFolderId)
       THEN moveVideo(draggedItem.id, targetFolderId)
       ELSE UNCHANGED <<appData, currentVideo>>
    /\ UNCHANGED <<selectedFolderId, videoUrl, videoId, localVideoUrl, localVideoName,
                   generalNotes, annotations, activePlaylist, playlistIndex,
                   isPlaylistMode, sidebarTab>>
    /\ UNCHANGED <<ambientVars, importVars, envVars, textVars>>

\* onDrop of a folder row (targetFolderId its id) and of the folder tree
\* (targetFolderId null, for a dragged folder)
onDrop ==
    /\ mounted
    /\ \E draggedItem \in DragItems :
       \E targetFolderId \in FolderIds(appData.folders)
                               \cup (IF draggedItem.type = "folder" THEN {null} ELSE {}) :
          handleDrop(draggedItem, targetFolderId)

InitFolders ==
    /\ FreshPage
    /\ selectedFolderId = null
    /\ mounted = TRUE
    /\ search = NoSearch
    /\ clipboard = [param |-> "none"]
    /\ lastAlert = ""
    /\ consoleError = ""
    /\ base64Text = Unset /\ urlSafeText = Unset /\ paddedText = Unset
    /\ appData \in FolderLibraries

NextFolders ==
    \/ createFolder
    \/ renameFolder
    \/ onDeleteFolder
    \/ onDrop

SpecFolders == InitFolders /\ [][NextFolders]_vars

----------------------------------------------------------------------------

\* the folders met on the way from a folder to the root, at most n links up:
\* the walk of isDescendantOfDragged
RECURSIVE Climb(_, _, _)
Climb(folders, id, n) ==
    LET current == FindFolder(folders, id)
    IN IF current = nullObj THEN {}
       ELSE {id} \cup (IF n = 0 THEN {} ELSE Climb(folders, current.parentId, n - 1))

\* no folder is its own ancestor, and every parentId that is not null is the
\* id of a folder
Forest ==
    \A k \in 1..Len(appData.folders) :
       LET f == appData.folders[k]
       IN \/ f.parentId = null
          \/ /\ f.parentId \in FolderIds(appData.folders)
             /\ f.id \notin Climb(appData.folders, f.parentId, Len(appData.folders))

\* the folders at or below a folder, found from below
AtOrBelow(id) ==
    {g \in FolderIds(appData.folders) :
        id \in Climb(appData.folders, g, Len(appData.folders))}

----------------------------------------------------------------------------

(* C1: no partial mutation on decode failure.  Whenever the load-time      *)
(* decode fails, at whatever stage, every session-store variable has the   *)
(* same value after the decode as before it.                               *)
(* The code calls setGeneralNotes before compactData.a.map can throw.      *)

C1_NoPartialMutation == [][RejectedStep => storeVars' = storeVars]_vars

----------------------------------------------------------------------------
(* C3: marker reordering on decode.  Whatever the order of the a array of  *)
(* a video-share payload, the annotations installed by the decode are in   *)
(* ascending timestamp order, equal timestamps keeping their wire order.   *)
(* The code installs the markers in wire order.                            *)

C3_MarkersSortedOnDecode ==
    [][(LoadStep /\ VideoBranch /\ ~RejectedStep)
          => annotations' = SortByTimestamp(SharedAnnotations(Parsed(search.d).a))]_vars

----------------------------------------------------------------------------
(* C4: schema-mismatch rejection.  Decoding a video-share payload that     *)
(* parses as a JSON object but lacks v, t, g or a, or a playlist payload   *)
(* that lacks n, i or lp, is rejected and never installs the payload.      *)
(* The code rejects only a missing a or i; any other payload is installed. *)

LacksRequired(w, required) ==
    ParsesToObject(w) /\ \E k \in required : k \notin DOMAIN Parsed(w)

C4_SchemaMismatchRejected ==
    [][(LoadStep /\ \/ VideoBranch /\ LacksRequired(search.d, {"v", "t", "g", "a"})
                    \/ PlaylistBranch /\ LacksRequired(search.p, {"n", "i", "lp"}))
          => (RejectedStep /\ storeVars' = storeVars)]_vars

----------------------------------------------------------------------------
(* C5: malformed and corrupted input is contained.  For an input that is   *)
(* not valid base64 once the URL-safe remap is reversed, or whose bytes    *)
(* are no valid deflate stream, the effect ends in its catch (the error is *)
(* logged, the effect completes) and the session store is unchanged.       *)

MalformedOrCorrupt(w) ==
    \/ w.enc = "invalid"
    \/ w.enc = "b64url" /\ w.bytes.fmt = "corrupt"

C5_MalformedContained ==
    [][(LoadStep /\ \/ VideoBranch /\ MalformedOrCorrupt(search.d)
                    \/ PlaylistBranch /\ MalformedOrCorrupt(search.p))
          => /\ RejectedStep
             /\ mounted'
             /\ storeVars' = storeVars]_vars

\* a page whose effect has rejected a malformed or corrupted parameter
C5_Witness ==
    /\ mounted
    /\ consoleError \in {"Failed to load shared data:", "Failed to load shared playlist:"}
    /\ \/ MalformedOrCorrupt(search.d)
       \/ ~WireTruthy(search.d) /\ MalformedOrCorrupt(search.p)

----------------------------------------------------------------------------
(* C2: round-trip identity for video shares.  For every session with a     *)
(* loaded video, decoding the string handleShare produces yields a session *)
(* whose notes, title, local-file flag and markers (sorted by time; label, *)
(* time and description) equal those of the original session.              *)

\* handleShare can run and hands a string to the clipboard
SharesVideo ==
    /\ mounted
    /\ ~(isPlaylistMode /\ activePlaylist # nullObj)
    /\ Truthy(videoId) \/ Truthy(localVideoUrl)
    /\ ~TooLong(VideoShareUrl)

\* the session a recipient's effect installs from that string
RoundTripVideo == InstalledVideo(Parsed(VideoShareUrl.urlSafe), 0)

\* the markers of an annotations list, in time order
Marker(ann) ==
    [time |-> ann.timestamp, label |-> Get(ann, "title"),
     description |-> Get(ann, "description")]

Markers(anns) ==
    LET sorted == SortByTimestamp(anns)
    IN [k \in 1..Len(anns) |-> Marker(sorted[k])]

\* the same with an empty description read as no description
MarkersModuloEmpty(anns) ==
    LET markers == Markers(anns)
    IN [k \in 1..Len(anns) |-> [markers[k] EXCEPT !.description = Or(@, undefined)]]

\* C2 as stated: fails on a marker whose description is the empty
\* string and on a local file whose name is empty
C2_RoundTripExact ==
    SharesVideo =>
        LET decoded == RoundTripVideo
        IN /\ VideoFailStage(VideoShareUrl.urlSafe) = "none"
           /\ decoded.generalNotes = generalNotes
           /\ decoded.localVideoName = localVideoName
           /\ (decoded.toLink # <<>>) = Truthy(localVideoUrl)
           /\ Markers(decoded.annotations) = Markers(annotations)

\* C2 as amended: an empty description comes back as no description,
\* an empty local file name comes back as "Shared Video"
C2_RoundTrip ==
    SharesVideo =>
        LET decoded == RoundTripVideo
        IN /\ VideoFailStage(VideoShareUrl.urlSafe) = "none"
           /\ decoded.generalNotes = generalNotes
           /\ decoded.localVideoName =
                  (IF Truthy(localVideoUrl) THEN Or(localVideoName, "Shared Video")
                   ELSE "")
           /\ (decoded.toLink # <<>>) = Truthy(localVideoUrl)
           /\ MarkersModuloEmpty(decoded.annotations) = MarkersModuloEmpty(annotations)

\* a recipient's page holding the session decoded from a copied video
\* share: two markers, one with a description, sent out of time order
C2_Witness ==
    /\ mounted
    /\ clipboard.param = "d"
    /\ search = NoSearch
    /\ generalNotes = "note"
    /\ Len(annotations) = 2
    /\ annotations = InstalledVideo(Parsed(clipboard.urlSafe), 0).annotations
    /\ annotations[1].timestamp > annotations[2].timestamp
    /\ \E k \in 1..2 : Get(annotations[k], "title") = "B"
                        /\ Get(annotations[k], "description") = "desc"

----------------------------------------------------------------------------
(* C6: size boundary without truncation.  For both share kinds, whenever   *)
(* the complete share URL is longer than 8000 characters the share ends in *)
(* the "URL is too long" outcome and nothing is handed to the clipboard;   *)
(* every string written to the clipboard is at most 8000 characters long   *)
(* and is the entire share URL of the session, never a shortened one.      *)

\* the Share button calls handleSharePlaylist
SharesActivePlaylist == isPlaylistMode /\ activePlaylist # nullObj

\* the Share button gets past its first guard
Shareable ==
    IF SharesActivePlaylist THEN Len(activePlaylist.items) > 0
    ELSE Truthy(videoId) \/ Truthy(localVideoUrl)

\* the share URL the button builds from the session it reads
CurrentShareUrl ==
    IF SharesActivePlaylist THEN PlaylistShareUrl(activePlaylist) ELSE VideoShareUrl

\* the payload that URL must carry
CurrentPayload ==
    IF SharesActivePlaylist
    THEN Stringify(CompactPlaylistData(activePlaylist, LibrarySounds(appData)))
    ELSE Stringify(CompactShareData(videoId, localVideoName, generalNotes,
                                    annotations, localVideoUrl))

C6_SizeBoundary ==
    [][(mounted /\ mounted') =>
          /\ (Shareable /\ CurrentShareUrl.length > UrlLimit)
                => (clipboard' = clipboard /\ lastAlert' = "URL is too long")
          /\ (clipboard' # clipboard)
                => /\ clipboard'.length <= UrlLimit
                   /\ clipboard' = CurrentShareUrl
                   /\ clipboard'.urlSafe.bytes.text = CurrentPayload
                   /\ clipboard'.length =
                         BaseUrlLen + 3 + UrlSafeLen(Deflate(CurrentPayload))]_vars

\* a video share refused for its size, the clipboard still untouched
C6_Witness ==
    /\ mounted
    /\ lastAlert = "URL is too long"
    /\ ~SharesActivePlaylist
    /\ VideoShareUrl.length > UrlLimit
    /\ clipboard.param = "none"

----------------------------------------------------------------------------
(* C7: local-file non-leak.  For every playlist entry with isLocalFile     *)
(* true the payload of handleSharePlaylist does not depend on the entry's  *)
(* in-memory url; a video share of a local file never contains             *)
(* localVideoUrl; no blob reference is in the decompressed payload.        *)

\* the playlist with other blob urls in its local entries
Relocated(playlist) ==
    [playlist EXCEPT !.items =
        [k \in 1..Len(playlist.items) |->
            IF IsTrue(playlist.items[k], "isLocalFile")
            THEN [playlist.items[k] EXCEPT !.url = "blob:other"]
            ELSE playlist.items[k]]]

\* the urls of the session that name an object of this page's memory
BlobUrls ==
    (IF Truthy(localVideoUrl) THEN {localVideoUrl} ELSE {})
      \cup (IF activePlaylist = nullObj THEN {}
            ELSE {activePlaylist.items[k].url :
                     k \in {j \in 1..Len(activePlaylist.items) :
                               /\ IsTrue(activePlaylist.items[j], "isLocalFile")
                               /\ Truthy(activePlaylist.items[j].url)}})

\* the strings of a decompressed payload
PayloadStrings(o) ==
    {o[k] : k \in DOMAIN o \cap {"v", "t", "g", "n"}}
      \cup (IF "a" \in DOMAIN o
            THEN UNION {{o.a[j][k] : k \in DOMAIN o.a[j] \cap {"n", "d"}} : j \in 1..Len(o.a)}
            ELSE {})
      \cup (IF "i" \in DOMAIN o
            THEN UNION {{o.i[j][k] : k \in DOMAIN o.i[j] \cap {"v", "u", "t", "f"}} :
                           j \in 1..Len(o.i)}
            ELSE {})
      \cup (IF "as" \in DOMAIN o
            THEN UNION {{o.as[j][k] : k \in DOMAIN o.as[j]} : j \in 1..Len(o.as)}
            ELSE {})

C7_LocalNonLeak ==
    (mounted /\ Shareable) =>
        LET payload == CurrentPayload
        IN /\ PayloadStrings(payload.value) \cap BlobUrls = {}
           /\ SharesActivePlaylist =>
                 /\ Stringify(CompactPlaylistData(Relocated(activePlaylist),
                                                  LibrarySounds(appData))) = payload
                 /\ \A k \in 1..Len(activePlaylist.items) :
                       IsTrue(activePlaylist.items[k], "isLocalFile")
                           => payload.value.i[k].u = ""
           /\ ~SharesActivePlaylist =>
                 Stringify(CompactShareData(videoId, localVideoName, generalNotes, annotations,
                                            IF Truthy(localVideoUrl) THEN "blob:other"
                                            ELSE null)) = payload

\* a copied playlist share whose playlist has a local entry held in memory
C7_Witness ==
    /\ mounted
    /\ SharesActivePlaylist
    /\ clipboard = PlaylistShareUrl(activePlaylist)
    /\ \E k \in 1..Len(activePlaylist.items) :
          /\ IsTrue(activePlaylist.items[k], "isLocalFile")
          /\ activePlaylist.items[k].url = "blob:1"
          /\ clipboard.urlSafe.bytes.text.value.i[k].u = ""

----------------------------------------------------------------------------
(* C8: optional-flag default on decode.  Encoding a playlist with          *)
(* startRandom false (or randomTime false) produces a payload without the  *)
(* sr (or rt) key, and decoding that payload yields a playlist whose       *)
(* startRandom (or randomTime) is the boolean false, not undefined.        *)

\* handleSharePlaylist can run and hands a string to the clipboard
SharesPlaylist ==
    /\ mounted
    /\ SharesActivePlaylist
    /\ Len(activePlaylist.items) > 0
    /\ ~TooLong(PlaylistShareUrl(activePlaylist))

\* the payload a recipient's effect parses from that string
RoundTripPayload == Parsed(PlaylistShareUrl(activePlaylist).urlSafe)

\* the playlist the effect reconstructs from it
RoundTripPlaylist == SharedPlaylist(RoundTripPayload, 0)

Flags == {[field |-> "startRandom", key |-> "sr"], [field |-> "randomTime", key |-> "rt"]}

\* C8 as stated: the reconstructed flag is the boolean false
C8_FlagDecodesFalse ==
    SharesPlaylist =>
        LET payload == RoundTripPayload
            decoded == RoundTripPlaylist
        IN \A f \in Flags :
              ~IsTrue(activePlaylist, f.field)
                  => /\ f.key \notin DOMAIN payload
                     /\ f.field \in DOMAIN decoded
                     /\ decoded[f.field] = FALSE

\* C8 as amended: the reconstructed flag is undefined, which reads as
\* false wherever the flag is tested
C8_FlagDecodesAbsent ==
    SharesPlaylist =>
        LET payload == RoundTripPayload
            decoded == RoundTripPlaylist
        IN /\ PlaylistFailStage(PlaylistShareUrl(activePlaylist).urlSafe) = "none"
           /\ \A f \in Flags :
                 ~IsTrue(activePlaylist, f.field)
                     => /\ f.key \notin DOMAIN payload
                        /\ f.field \notin DOMAIN decoded
                        /\ ~IsTrue(decoded, f.field)

\* a recipient's page playing the playlist decoded from a copied share of a
\* library playlist whose two flags were the boolean false
C8_Witness ==
    /\ mounted
    /\ SharesActivePlaylist
    /\ clipboard.param = "p"
    /\ \E t \in Clock : activePlaylist = SharedPlaylist(Parsed(clipboard.urlSafe), t)
    /\ Len(appData.playlists) = 1
    /\ "startRandom" \in DOMAIN appData.playlists[1]
    /\ appData.playlists[1].startRandom = FALSE
    /\ clipboard.urlSafe.bytes.text =
          Stringify(CompactPlaylistData(appData.playlists[1], <<>>))
    /\ "startRandom" \notin DOMAIN activePlaylist

----------------------------------------------------------------------------
(* C9: idempotent re-decode.  Decoding the same wire string twice, at      *)
(* different times, yields identical identifiers for every derived object: *)
(* the markers, the playlist items, the ambient tracks and the             *)
(* reconstructed session or playlist itself.                               *)

Ids(s) == [k \in 1..Len(s) |-> s[k].id]

\* the identifiers a decode of the address at time t derives
VideoIds(t) ==
    LET installed == InstalledVideo(Parsed(search.d), t)
    IN [markers |-> Ids(installed.annotations), session |-> Ids(installed.toLink)]

PlaylistIds(t) ==
    LET compactPlaylist == Parsed(search.p)
    IN [items |-> Ids(SharedPlaylist(compactPlaylist, t).items),
        playlist |-> SharedPlaylist(compactPlaylist, t).id,
        ambient |-> IF HasAmbient(compactPlaylist)
                    THEN Ids(SharedAmbientSounds(compactPlaylist.as, t)) ELSE <<>>]

\* the identifiers the step installed
InstalledVideoIds ==
    [markers |-> Ids(annotations'), session |-> Ids(localVideosToLink')]

InstalledPlaylistIds ==
    [items |-> Ids(activePlaylist'.items),
     playlist |-> activePlaylist'.id,
     ambient |-> IF HasAmbient(Parsed(search.p)) THEN Ids(appData'.ambientSounds) ELSE <<>>]

Distinct(ids) == \A j, k \in 1..Len(ids) : j # k => ids[j] # ids[k]

----------------------------------------------------------------------------
(* C10: playlist order preservation.  For every playlist the k-th item of  *)
(* the wire array i is the projection of the k-th source item, and the     *)
(* k-th item of the decoded playlist is the reconstruction of the k-th     *)
(* wire item; neither encode nor decode reorders, drops or duplicates.     *)

\* what an item and its wire form say of the video
Entry(item) ==
    [videoRef |-> Get(item, "videoId"), title |-> Get(item, "title"),
     isLocalFile |-> IsTrue(item, "isLocalFile"),
     originalFileName |-> Get(item, "localFileName")]

WireEntry(w) ==
    [videoRef |-> Get(w, "v"), title |-> Get(w, "t"),
     isLocalFile |-> IsTrue(w, "l"), originalFileName |-> Get(w, "f")]

C10_OrderPreserved ==
    SharesPlaylist =>
        LET payload == RoundTripPayload
            decoded == RoundTripPlaylist
        IN /\ PlaylistFailStage(PlaylistShareUrl(activePlaylist).urlSafe) = "none"
           /\ Len(payload.i) = Len(activePlaylist.items)
           /\ Len(decoded.items) = Len(activePlaylist.items)
           /\ \A k \in 1..Len(activePlaylist.items) :
                 /\ payload.i[k] =
                       Stringify([i |-> <<CompactPlaylistItem(activePlaylist.items[k])>>]).value.i[1]
                 /\ WireEntry(payload.i[k]) = Entry(activePlaylist.items[k])
                 /\ decoded.items[k] = SharedPlaylistItem(payload.i[k], k - 1)
                 /\ Entry(decoded.items[k]) = Entry(activePlaylist.items[k])

\* a recipient's page playing the playlist decoded from a copied share of a
\* library playlist of two different videos, in the library's order
C10_Witness ==
    /\ mounted
    /\ SharesActivePlaylist
    /\ clipboard.param = "p"
    /\ \E t \in Clock : activePlaylist = SharedPlaylist(Parsed(clipboard.urlSafe), t)
    /\ Len(appData.playlists) = 1
    /\ Len(appData.playlists[1].items) = 2
    /\ Len(activePlaylist.items) = 2
    /\ Entry(activePlaylist.items[1]) # Entry(activePlaylist.items[2])
    /\ \A k \in 1..2 : Entry(activePlaylist.items[k]) = Entry(appData.playlists[1].items[k])

----------------------------------------------------------------------------
(* C11: a local-file video share decodes to needs-relinking.  After        *)
(* decoding a video payload with l true the session has no playable        *)
(* reference (videoId null, localVideoUrl null, videoUrl empty) and the     *)
(* pending-relink list contains exactly one entry for that session, with   *)
(* isLocalFile true and an empty url.                                      *)

C11_LocalShareNeedsRelink ==
    [][(LoadStep /\ VideoBranch /\ ~RejectedStep /\ IsTrue(Parsed(search.d), "l")) =>
          /\ videoId' = null
          /\ localVideoUrl' = null
          /\ videoUrl' = ""
          /\ Len(localVideosToLink') = 1
          /\ localVideosToLink'[1].isLocalFile = TRUE
          /\ localVideosToLink'[1].url = ""
          /\ localVideosToLink'[1].videoId = ""
          /\ localVideosToLink'[1].annotations = annotations'
          /\ Get(localVideosToLink'[1], "generalNotes") = generalNotes'
          /\ currentLinkingVideo' = localVideosToLink'[1]
          /\ showImportModal']_vars

\* a page that decoded a local-file video share with a marker: the relink
\* modal is open on the one pending entry
C11_Witness ==
    /\ mounted
    /\ consoleError = ""
    /\ showImportModal
    /\ Len(localVideosToLink) = 1
    /\ localVideosToLink[1].isLocalFile
    /\ Len(annotations) >= 1
    /\ videoId = null /\ localVideoUrl = null /\ videoUrl = ""

----------------------------------------------------------------------------
(* C12: playlist local entries are surfaced for relinking.  After decoding *)
(* a playlist payload with k >= 1 entries with l true, the pending-relink  *)
(* list handed to the UI contains exactly those k entries, in playlist     *)
(* order, each with its f value as the file-name hint, and none of them    *)
(* has a playable reference.                                               *)
(* The effect only alerts; setLocalVideosToLink is not called.             *)

\* the entries of a playlist payload with l true, in payload order
LocalWireItems(compactPlaylist) ==
    LET IsLocal(item) == IsTrue(item, "l")
    IN SelectSeq(compactPlaylist.i, IsLocal)

C12_LocalEntriesSurfaced ==
    [][(LoadStep /\ PlaylistBranch /\ ~RejectedStep
          /\ Len(LocalWireItems(Parsed(search.p))) >= 1) =>
          LET local == LocalWireItems(Parsed(search.p))
          IN /\ Len(localVideosToLink') = Len(local)
             /\ \A j \in 1..Len(local) :
                   /\ Get(localVideosToLink'[j], "localFileName") = Get(local[j], "f")
                   /\ Get(localVideosToLink'[j], "url") = ""]_vars

----------------------------------------------------------------------------
(* C13: an empty playlist payload is a valid result.  Decoding a           *)
(* well-formed playlist payload whose i array is empty completes as a      *)
(* success: the reconstructed playlist with zero items becomes the active  *)
(* playlist and no error condition is raised.                              *)
(* findIndex returns -1 on the empty list, so the effect alerts that the   *)
(* playlist only contains local videos and activates nothing.              *)

\* a complete, well-formed playlist payload with no items
EmptyPlaylistPayload(w) ==
    /\ ParsesToObject(w)
    /\ {"n", "i", "lp"} \subseteq DOMAIN Parsed(w)
    /\ Parsed(w).i = <<>>

C13_EmptyPlaylistAccepted ==
    [][(LoadStep /\ PlaylistBranch /\ EmptyPlaylistPayload(search.p)) =>
          /\ ~RejectedStep
          /\ \E t \in Clock : activePlaylist' = SharedPlaylist(Parsed(search.p), t)
          /\ lastAlert' = lastAlert]_vars

----------------------------------------------------------------------------
(* C14: uniform decode failure report.  Every decode failure, whichever    *)
(* stage it occurs in and whichever share kind, leaves the user with the   *)
(* same observable outcome, an "invalid share link" report.                *)
(* The two catch blocks call console.error only: nothing is shown.         *)

\* a step of the effect that shows the user a report
ReportedStep == LoadStep /\ lastAlert' # lastAlert /\ lastAlert' # ""

C14_FailureReported ==
    [][RejectedStep => (ReportedStep /\ storeVars' = storeVars)]_vars

----------------------------------------------------------------------------
(* C15: marker time invariant.  In every reachable state every annotation  *)
(* held in the session, also after decoding an untrusted share payload,    *)
(* has timestamp >= 0.                                                     *)
(* The effect copies ann.t into timestamp without looking at it.           *)

C15_TimestampsNonNegative ==
    /\ \A k \in 1..Len(annotations) : annotations[k].timestamp >= 0
    /\ \A j \in 1..Len(localVideosToLink) :
          \A k \in 1..Len(localVideosToLink[j].annotations) :
              localVideosToLink[j].annotations[k].timestamp >= 0

----------------------------------------------------------------------------
(* C16: encode is read-only.  handleShare and handleSharePlaylist, in      *)
(* every outcome (copied, too large, failure, nothing to share), leave     *)
(* every session-store variable unchanged.                                 *)

\* a step of the mounted page: the Share button and the handler it calls
ShareStep == mounted /\ mounted'

C16_EncodeReadOnly ==
    [][ShareStep => storeVars' = storeVars]_vars

\* a video session with notes and markers whose share URL was just copied
C16_Witness ==
    /\ mounted
    /\ lastAlert = "copied to clipboard"
    /\ clipboard = VideoShareUrl
    /\ generalNotes = "note"
    /\ Len(annotations) = MaxMarkers

----------------------------------------------------------------------------
(* C17: the URL-safe remap is exactly reversible.  For every base64 text b *)
(* that btoa returns, reversing the remap ('-' to '+', '_' to '/', then    *)
(* (4 - len mod 4) mod 4 '=' appended) on the remapped text ('+' to '-',   *)
(* '/' to '_', trailing '=' stripped) returns b exactly.                   *)

C17_RemapReversible ==
    (paddedText # Unset) =>
        /\ urlSafeText = ToUrlSafe(base64Text)
        /\ paddedText = base64Text
        /\ \A k \in 1..Len(urlSafeText) : urlSafeText[k] \notin {"+", "/", "="}

\* a text with both remapped characters and two '=' restored from its
\* URL-safe form
C17_Witness ==
    /\ paddedText # Unset
    /\ base64Text = <<"+", "/", "=", "=">>
    /\ urlSafeText = <<"-", "_">>

----------------------------------------------------------------------------
(* C18: local entries are projected without a source URL field.  For every *)
(* playlist entry with isLocalFile true the projected wire item has no u   *)
(* key at all and has l true and f equal to the entry's localFileName; for *)
(* every non-local entry the wire item has u equal to the entry's url and  *)
(* neither l nor f.                                                        *)

\* the wire items of the playlist handleSharePlaylist is called with
WireItemsOfPlaylist == CurrentPayload.value.i

\* C18 as stated: a local entry's wire item has no u key
C18_LocalItemsWithoutU ==
    (mounted /\ SharesActivePlaylist /\ Shareable) =>
        LET wire == WireItemsOfPlaylist
        IN \A k \in 1..Len(activePlaylist.items) :
              IF IsTrue(activePlaylist.items[k], "isLocalFile")
              THEN /\ "u" \notin DOMAIN wire[k]
                   /\ IsTrue(wire[k], "l")
                   /\ Get(wire[k], "f") = Get(activePlaylist.items[k], "localFileName")
              ELSE /\ Get(wire[k], "u") = Get(activePlaylist.items[k], "url")
                   /\ "l" \notin DOMAIN wire[k]
                   /\ "f" \notin DOMAIN wire[k]

\* C18 as amended: a local entry's wire item has the u key, with the empty
\* string as its value
C18_LocalItemsWithEmptyU ==
    (mounted /\ SharesActivePlaylist /\ Shareable) =>
        LET wire == WireItemsOfPlaylist
        IN /\ Len(wire) = Len(activePlaylist.items)
           /\ \A k \in 1..Len(activePlaylist.items) :
                 IF IsTrue(activePlaylist.items[k], "isLocalFile")
                 THEN /\ "u" \in DOMAIN wire[k]
                      /\ wire[k].u = ""
                      /\ IsTrue(wire[k], "l")
                      /\ Get(wire[k], "f") = Get(activePlaylist.items[k], "localFileName")
                 ELSE /\ Get(wire[k], "u") = Get(activePlaylist.items[k], "url")
                      /\ "l" \notin DOMAIN wire[k]
                      /\ "f" \notin DOMAIN wire[k]

\* a copied share of a library playlist made of a streaming entry and a
\* local entry that has a file name
C18_Witness ==
    /\ mounted
    /\ SharesActivePlaylist
    /\ clipboard = PlaylistShareUrl(activePlaylist)
    /\ Len(activePlaylist.items) = 2
    /\ ~IsTrue(activePlaylist.items[1], "isLocalFile")
    /\ Get(activePlaylist.items[1], "url") = "https://youtu.be/vidA"
    /\ IsTrue(activePlaylist.items[2], "isLocalFile")
    /\ Get(activePlaylist.items[2], "localFileName") = "clip.mp4"
    /\ Get(activePlaylist.items[2], "url") = "blob:1"

----------------------------------------------------------------------------
(* C19: false flags are omitted from the wire.  In every payload the share *)
(* handlers produce, the keys l (video share and playlist item), sr and rt *)
(* are present only with the value true and are absent when the flag is    *)
(* false or undefined.                                                     *)

\* key k of the wire object w stands for the flag: there with true when the
\* flag is set, not there otherwise
FlagOnWire(w, k, flag) ==
    IF flag THEN k \in DOMAIN w /\ w[k] = TRUE
    ELSE k \notin DOMAIN w

C19_FalseFlagsOmitted ==
    (mounted /\ Shareable) =>
        LET payload == CurrentPayload.value
        IN IF SharesActivePlaylist
           THEN /\ FlagOnWire(payload, "sr", IsTrue(activePlaylist, "startRandom"))
                /\ FlagOnWire(payload, "rt", IsTrue(activePlaylist, "randomTime"))
                /\ \A k \in 1..Len(activePlaylist.items) :
                      FlagOnWire(payload.i[k], "l",
                                 IsTrue(activePlaylist.items[k], "isLocalFile"))
           ELSE FlagOnWire(payload, "l", Truthy(localVideoUrl))

\* a copied share of a library playlist whose flags are the boolean false
\* and whose first entry has isLocalFile false
C19_Witness ==
    /\ mounted
    /\ SharesActivePlaylist
    /\ clipboard = PlaylistShareUrl(activePlaylist)
    /\ "startRandom" \in DOMAIN activePlaylist
    /\ activePlaylist.startRandom = FALSE
    /\ activePlaylist.randomTime = FALSE
    /\ "isLocalFile" \in DOMAIN activePlaylist.items[1]
    /\ activePlaylist.items[1].isLocalFile = FALSE
    /\ DOMAIN clipboard.urlSafe.bytes.text.value \cap {"sr", "rt"} = {}

----------------------------------------------------------------------------
(* C20: the share kind is chosen by parameter presence only.  The          *)
(* load-time decode treats the input as a video share exactly when the d   *)
(* parameter is present and as a playlist share exactly when p is present  *)
(* and d is absent; the payload contents never change which reconstruction *)
(* is applied, and at most one of the two decodes runs per page load.      *)

\* the parameter is in the address
Present(w) == w.enc # "absent"

\* the parameter is in the address with a value that is not the empty string
HasValue(w) == w.enc \notin {"absent", "empty"}

\* what a step of the video decode never touches, and a step of the
\* playlist decode never touches
PlaylistUntouched ==
    /\ activePlaylist' = activePlaylist
    /\ appData' = appData
    /\ isPlaylistMode' = isPlaylistMode
    /\ consoleError' \in {"", "Failed to load shared data:"}

VideoUntouched ==
    /\ importVars' = importVars
    /\ annotations' = <<>>
    /\ generalNotes' = ""
    /\ consoleError' \in {"", "Failed to load shared playlist:"}

\* C20 as stated: the presence of d decides
C20_KindByPresence ==
    [][LoadStep =>
          /\ LoadSharedVideo <=> Present(search.d)
          /\ LoadSharedPlaylist <=> (Present(search.p) /\ ~Present(search.d))]_vars

\* C20 as amended: a parameter counts when its value is not the empty
\* string, so that ?d=&p=... is a playlist share
C20_KindByValue ==
    [][LoadStep =>
          /\ LoadSharedVideo <=> HasValue(search.d)
          /\ LoadSharedPlaylist <=> (HasValue(search.p) /\ ~HasValue(search.d))
          /\ ~(LoadSharedVideo /\ LoadSharedPlaylist)
          /\ HasValue(search.d) => PlaylistUntouched
          /\ (HasValue(search.p) /\ ~HasValue(search.d)) => VideoUntouched]_vars

\* a page opened with ?d=&p=<a video payload>: the playlist decode ran on
\* it and failed, and nothing of the video payload was installed
C20_Witness ==
    /\ mounted
    /\ search.d = EmptyParam
    /\ search.p = WireOf(VideoSample)
    /\ consoleError = "Failed to load shared playlist:"
    /\ generalNotes = ""
    /\ annotations = <<>>
    /\ videoId = null

----------------------------------------------------------------------------
(* C21: deterministic encode.  The text a share hands to the clipboard is  *)
(* a function of the session state alone (video reference, title, notes,   *)
(* markers in their order, local flag; or the playlist and the ambient     *)
(* library): it is the encoding of exactly these values, and a second      *)
(* share of the unchanged session copies the identical text.               *)

\* the encoding of a session, from the values the handler reads
EncodedSession(vId, lName, notes, anns, lUrl) ==
    UrlSafe(Deflate(Stringify(CompactShareData(vId, lName, notes, anns, lUrl))))

\* the encoding of a playlist and an ambient library
EncodedPlaylist(playlist, ambientSounds) ==
    UrlSafe(Deflate(Stringify(CompactPlaylistData(playlist, ambientSounds))))

\* a share step that hands a text to the clipboard
CopiedStep == ShareStep /\ lastAlert' = "copied to clipboard"

----------------------------------------------------------------------------
(* C22: ambient tracks on the wire.  A playlist payload has the as key     *)
(* exactly when the sender's ambient library is non-empty, and then as     *)
(* lists one {v, t} entry per library sound, in library order; with an     *)
(* empty or an absent library the key is omitted.                          *)

C22_AmbientOnWire ==
    (mounted /\ SharesActivePlaylist /\ Shareable) =>
        LET wire == CurrentPayload.value
            sounds == LibrarySounds(appData)
        IN /\ ("as" \in DOMAIN wire) <=>
                 ("ambientSounds" \in DOMAIN appData /\ appData.ambientSounds # <<>>)
           /\ "as" \in DOMAIN wire =>
                 /\ Len(wire.as) = Len(sounds)
                 /\ \A k \in 1..Len(sounds) :
                       wire.as[k] = [v |-> sounds[k].videoId, t |-> sounds[k].title]

\* a playlist shared with two sounds in the library, the second after the first
C22_Witness ==
    /\ mounted /\ SharesActivePlaylist /\ Shareable
    /\ lastAlert = "copied to clipboard"
    /\ Len(LibrarySounds(appData)) = 2
    /\ Parsed(clipboard.urlSafe).as = <<[v |-> "wind", t |-> "Wind"], [v |-> "surf", t |-> "Surf"]>>

----------------------------------------------------------------------------
(* C23: a wire encoding is consumed once.  After a successful decode of    *)
(* either share kind the address holds no share parameter any more, so a   *)
(* later load of the address the page was left with decodes nothing and    *)
(* changes nothing; the address changes only when the effect runs, once    *)
(* per page, at mount.                                                     *)

\* the effect ran its try block to the end
DecodedStep == LoadStep /\ ~RejectedStep /\ (VideoBranch \/ PlaylistBranch)

C23_ConsumedOnce ==
    [][/\ DecodedStep => search' = NoSearch
       /\ (LoadStep /\ search = NoSearch) => (storeVars' = storeVars /\ search' = search)
       /\ search' # search => LoadStep]_vars

\* a page that decoded a playlist share, was reloaded and mounted again with
\* nothing to decode: the library keeps the decoded sounds, the session is new
C23_Witness ==
    /\ mounted
    /\ search = NoSearch
    /\ consoleError = ""
    /\ lastAlert = ""
    /\ activePlaylist = nullObj
    /\ Len(LibrarySounds(appData)) = 2

----------------------------------------------------------------------------
(* C24: a shared playlist never starts on a local entry.  After a          *)
(* successful playlist decode, if the playlist is activated then           *)
(* playlistIndex is within bounds and refers to an entry that is not a     *)
(* local file, also when the random draw of startRandom fell on a local    *)
(* entry; if every entry is local, or there is none, the playlist is not   *)
(* activated and isPlaylistMode, activePlaylist and the player's video     *)
(* reference stay as they were.                                            *)

\* the 1-based positions of the wire items that are not local files
NotLocalItems(compactPlaylist) ==
    {k \in 1..Len(compactPlaylist.i) : ~IsTrue(compactPlaylist.i[k], "l")}

C24_NeverStartsOnLocal ==
    [][(LoadStep /\ PlaylistBranch /\ ~RejectedStep) =>
         IF NotLocalItems(Parsed(search.p)) # {}
         THEN /\ isPlaylistMode'
              /\ activePlaylist' # nullObj
              /\ playlistIndex' \in 0..(Len(activePlaylist'.items) - 1)
              /\ ~IsTrue(activePlaylist'.items[playlistIndex' + 1], "isLocalFile")
              /\ videoId' = Get(activePlaylist'.items[playlistIndex' + 1], "videoId")
         ELSE /\ activePlaylist' = nullObj
              /\ UNCHANGED <<isPlaylistMode, activePlaylist, playlistIndex,
                             videoId, videoUrl, localVideoUrl>>]_vars

\* a decoded startRandom playlist whose first entry is local, started on its
\* second entry
C24_Witness ==
    /\ mounted
    /\ consoleError = ""
    /\ isPlaylistMode
    /\ activePlaylist # nullObj
    /\ IsTrue(activePlaylist, "startRandom")
    /\ Len(activePlaylist.items) = 2
    /\ IsTrue(activePlaylist.items[1], "isLocalFile")
    /\ playlistIndex = 1
    /\ activePlaylist.id = SharedId(0)

----------------------------------------------------------------------------
(* C25: decoding a playlist share overwrites the ambient library.  When    *)
(* the payload has a non-empty as, the recipient's stored ambient library  *)
(* becomes exactly the decoded tracks in wire order, every sound saved     *)
(* before being discarded, and the first decoded track becomes the current *)
(* ambient sound; when as is absent or empty the library and the current   *)
(* ambient sound are unchanged.                                            *)

\* the track of an ambient sound of the library
Track(sound) == [v |-> sound.videoId, t |-> sound.title]

C25_AmbientOverwritten ==
    [][(LoadStep /\ PlaylistBranch /\ ~RejectedStep) =>
         LET compactPlaylist == Parsed(search.p)
         IN IF HasAmbient(compactPlaylist)
            THEN /\ Len(appData'.ambientSounds) = Len(compactPlaylist.as)
                 /\ \A k \in 1..Len(compactPlaylist.as) :
                       Track(appData'.ambientSounds[k]) = compactPlaylist.as[k]
                 /\ Without(appData', {"ambientSounds"}) = Without(appData, {"ambientSounds"})
                 /\ ambientVideoId' = compactPlaylist.as[1].v
                 /\ currentAmbientId' = compactPlaylist.as[1].v
                 /\ ambientVideoTitle' = compactPlaylist.as[1].t
                 /\ ambientPlaying'
            ELSE UNCHANGED <<appData, ambientVars>>]_vars

\* a page whose library held Sound1 decoded a share with two other tracks
C25_Witness ==
    /\ mounted
    /\ consoleError = ""
    /\ search = NoSearch
    /\ activePlaylist # nullObj
    /\ Len(LibrarySounds(appData)) = 2
    /\ Track(LibrarySounds(appData)[1]) = [v |-> "rain", t |-> "Rain"]
    /\ Track(LibrarySounds(appData)[2]) = [v |-> "fire", t |-> "Fire"]
    /\ currentAmbientId = "rain"
    /\ clipboard = [param |-> "none"]

----------------------------------------------------------------------------
(* C26: the relink wizard terminates and visits each entry once.  For      *)
(* every pending-relink list of n >= 1 entries, each link-a-file or skip   *)
(* action moves currentLinkingVideo from the entry it is at to the next    *)
(* entry of the list, and from the last entry to null (the completion      *)
(* step), so that it is null after at most n actions and no entry is       *)
(* prompted twice.                                                         *)
(* The code finds the place of the current entry by its id: with two       *)
(* entries under one id it comes back to the entry after the first.        *)

\* a step of the wizard
WizardStep == handleLinkVideoFile \/ handleSkipLinkVideo

C26_WizardAdvances ==
    [][WizardStep =>
         \E k \in 1..Len(localVideosToLink) :
            /\ localVideosToLink[k] = currentLinkingVideo
            /\ currentLinkingVideo' =
                  IF k < Len(localVideosToLink) THEN localVideosToLink[k + 1] ELSE nullObj]_vars

----------------------------------------------------------------------------
(* C27: a closed import modal means no pending import state.  In every     *)
(* reachable state where showImportModal is false, pendingImportData and   *)
(* pendingImportVideo are null, localVideosToLink is empty,                *)
(* currentLinkingVideo is null and linkedLocalVideos is empty; whatever    *)
(* branch handleCompleteImport and handleCancelImport take, they leave the *)
(* modal closed and this state cleared.                                    *)

NoPendingImport ==
    /\ pendingImportData = nullObj
    /\ pendingImportVideo = nullObj
    /\ localVideosToLink = <<>>
    /\ currentLinkingVideo = nullObj
    /\ linkedLocalVideos = Empty

C27_ClosedMeansCleared == ~showImportModal => NoPendingImport

\* a backup with linked videos was imported and the modal closed: the library
\* holds a linked local video while nothing is pending
C27_Witness ==
    /\ mounted
    /\ ~showImportModal
    /\ NoPendingImport
    /\ \E k \in 1..Len(appData.videos) : appData.videos[k].url = "blob:3"
    /\ "ambientSounds" \notin DOMAIN appData

----------------------------------------------------------------------------
(* C28: annotations stay in chronological order.  In every reachable state *)
(* the session's annotations list is sorted by ascending timestamp, after  *)
(* any sequence of handleAddAnnotation, handleUpdateAnnotation (a          *)
(* timestamp edit included), handleDeleteAnnotation, loadVideo and share   *)
(* decode.                                                                 *)
(* handleUpdateAnnotation maps the edit over the list and does not sort.   *)

C28_AnnotationsSorted ==
    \A j, k \in 1..Len(annotations) :
        j < k => annotations[j].timestamp <= annotations[k].timestamp

----------------------------------------------------------------------------
(* C29: the playlist index stays in bounds.  In every reachable state with *)
(* an active playlist of at least one item, 0 <= playlistIndex < number of *)
(* items, after any sequence of playPlaylist, playlistNext, playlistPrev,  *)
(* playlistGoTo, removeVideoFromPlaylist, reorderPlaylistItem and          *)
(* handleVideoEnd; in sequential mode without loop, playlistNext at the    *)
(* last item and playlistPrev at the first item leave the index unchanged, *)
(* and with loop they wrap to the first and to the last item.              *)

IndexInBounds ==
    (activePlaylist # nullObj /\ Len(activePlaylist.items) >= 1) =>
        playlistIndex \in 0..(Len(activePlaylist.items) - 1)

\* the active playlist is played in order
Sequential == activePlaylist # nullObj /\ ~IsTrue(activePlaylist, "startRandom")

C29_IndexInBounds ==
    [][/\ IndexInBounds'
       /\ (playlistNext /\ Sequential /\ playlistIndex = Len(activePlaylist.items) - 1) =>
             playlistIndex' = (IF IsTrue(activePlaylist, "loop") THEN 0 ELSE playlistIndex)
       /\ (playlistPrev /\ Sequential /\ playlistIndex = 0) =>
             playlistIndex' = (IF IsTrue(activePlaylist, "loop")
                               THEN Len(activePlaylist.items) - 1 ELSE playlistIndex)]_vars

\* the second item was playing when the first was removed: the index moved
\* back onto the item that is left
C29_Witness ==
    /\ isPlaylistMode
    /\ activePlaylist # nullObj
    /\ activePlaylist.items = <<ItemAt(2)>>
    /\ appData.playlists[1].items = <<ItemAt(2)>>
    /\ localVideoUrl = "blob:1"
    /\ playlistIndex = 0

----------------------------------------------------------------------------
(* C30: the folder tree stays a forest.  After every createFolder, drop,    *)
(* renameFolder and deleteFolder no folder is its own ancestor and every    *)
(* parentId that is not null is the id of a folder; dropping a folder onto  *)
(* itself or onto a folder below it leaves the library as it was; and       *)
(* deleteFolder removes exactly the folder, the folders below it and the    *)
(* videos whose id starts with the id of one of them and a slash.           *)

C30_FolderForest ==
    [][/\ Forest'
       /\ \A draggedItem \in DragItems, targetFolderId \in FolderIds(appData.folders) :
             (/\ handleDrop(draggedItem, targetFolderId)
              /\ draggedItem.type = "folder"
              /\ targetFolderId \in AtOrBelow(draggedItem.id)) => appData' = appData
       /\ \A id \in FolderIds(appData.folders) :
             deleteFolder(id) =>
                LET gone == AtOrBelow(id)
                IN /\ appData'.folders =
                         SelectSeq(appData.folders, LAMBDA f : f.id \notin gone)
                   /\ appData'.videos =
                         SelectSeq(appData.videos, LAMBDA v :
                            \A g \in gone : ~StartsWith(v.id, g \o "/"))]_vars

C30_Witness ==
    /\ Len(appData.folders) = 2
    /\ appData.folders[1].id = "1" /\ appData.folders[1].parentId = "3"
    /\ appData.folders[2].id = "3" /\ appData.folders[2].parentId = null
    /\ appData.videos = <<SavedClip("1/5", "clip")>>

====
